---- MODULE Spec2Model ----
(***************************************************************************)
(* Model of the project event log of ProjectService                       *)
(* (packages/syft/src/syft/service/project/project_service.py).           *)
(*                                                                         *)
(* Every server (node) keeps its own stored copy of the project in its     *)
(* stash.  The handlers add_event, broadcast_event and sync run on one     *)
(* server with an authenticated context (the server's verify key and the   *)
(* caller's credentials).  Each action below is one whole handler call.    *)
(***************************************************************************)
EXTENDS Integers, Sequences, FiniteSets, TLC

(* ----------------------------- bounds --------------------------------- *)

\* Longest event log the model lets a project grow to.
MaxLen == 2

(* ------------------------- values and inputs --------------------------- *)

\* The servers.  A server's verify key is written as the server's name.
Nodes == {"L", "F1", "F2"}

\* The servers callers address directly.  F2 differs from F1 in nothing but its
\* place in the member list: its handlers run for the leader's broadcast only.
Callees == {"L", "F1"}

\* Credentials a caller can present: the leader server's own key, a user the
\* project gives permission to, and a user it gives none.
Keys == {"L", "U", "X"}

\* project.state_sync_leader.verify_key and project.members (list order), as
\* fixed when the project was created on every server.
Leader == "L"
Members == <<"F1", "L", "F2">>

\* Python's None for an event whose seq_no was never set; it is tested for
\* before any comparison, as the code does.
None == -99

\* The events callers send: two ids, every seq_no a log of this size can meet
\* (0, the legal ones, a gap), and one event whose seq_no was never set.
EventIds == {"a", "b"}
SeqNos == 0 .. 3
Events == [id : EventIds, seq_no : SeqNos] \cup {[id |-> "a", seq_no |-> None]}

\* What check_for_project_request reads of the event: "request_here" when it is
\* a ProjectRequest whose linked request names this server, "request_elsewhere"
\* when it is a ProjectRequest linked to another server, "other" when it is
\* another kind of event.
ReqKinds == {"other", "request_here", "request_elsewhere"}

\* What NotificationService.send hands back.
SendResults == {"SyftSuccess", "SyftError"}

\* What the network collaborator does for one member: the peer is known and a
\* client can be opened, the peer is unknown, or the client cannot be opened.
PeerOutcomes == {"ok", "no_peer", "no_client"}

\* How an error of the remote add_event reaches the calling server: the remote
\* client raises it, or hands it back as a value (which line 273 drops).
RemoteErrorModes == {"raise", "return"}

NoEvent == [id |-> "-", seq_no |-> None]

\* No member's peer was looked at.
NoEnv == [m \in {} |-> "ok"]

VARIABLES
    stash,  \* stash[n]: the project as stored on server n
    ret     \* the last handler call: its arguments and what it did

vars == <<stash, ret>>

\* The state of one call of resolve (packages/syft/src/syft/client/syncing.py):
\* its arguments, its locals and what the user saw of it.
VARIABLES
    hierarchies,            \* state.hierarchies: the batches, each a list of diffs
    decision,               \* the decision argument
    share_private_objects,  \* the share_private_objects argument
    pc,                     \* where the call stands
    batch_no,               \* position of batch_diff in state.hierarchies
    batch_decision,         \* the side chosen for batch_diff
    remaining_private_high_diffs,  \* ask_user_input_permission's candidates
    private_high_diffs_to_share,   \* ask_user_input_permission's selection
    inputs,                 \* lines read from the user for the present prompt
    typed,                  \* res: the line the step read at the sharing prompt
    prompts,                \* every prompt printed, in order
    resolved_state_low,     \* the decisions added to the low accumulator
    resolved_state_high,    \* the decisions added to the high accumulator
    raised                  \* the ValueError the call ended with, or "none"

resolve_vars ==
    <<hierarchies, decision, share_private_objects, pc, batch_no,
      batch_decision, remaining_private_high_diffs,
      private_high_diffs_to_share, inputs, typed, prompts,
      resolved_state_low, resolved_state_high, raised>>

\* No call of resolve is under way.
NoResolve ==
    /\ hierarchies = <<>>
    /\ decision = "None"
    /\ share_private_objects = FALSE
    /\ pc = "idle"
    /\ batch_no = 0
    /\ batch_decision = "None"
    /\ remaining_private_high_diffs = <<>>
    /\ private_high_diffs_to_share = <<>>
    /\ inputs = 0
    /\ typed = <<>>
    /\ prompts = <<>>
    /\ resolved_state_low = <<>>
    /\ resolved_state_high = <<>>
    /\ raised = "none"

\* broadcast_event calls running side by side on the leader server, each at
\* some line of the handler with its own project object.
VARIABLES calls

CallIds == {1, 2}

NoCalls == calls = [c \in CallIds |-> [at |-> "idle"]]

\* The message queue (packages/syft/src/syft/service/queue/zmq_queue.py): a
\* ZMQPublisher, a ZMQSubscriber with its handler, and a ZMQClient.
VARIABLES
    subscriber,     \* the ZMQSubscriber: queue_name, message_handler, state
    sent,           \* every call of ZMQPublisher.send and how it ended
    inbox,          \* message lists waiting in the SUB socket
    arrived,        \* every message list that reached the SUB socket
    handled,        \* the payloads handle_message was called with
    receive_calls,  \* every call of receive(): the errno met, the outcome
    context,        \* zmq.Context.instance(): "live" or "terminated"
    thread,         \* ZMQClient.thread: a greenlet, or None
    logger_thread,  \* ZMQClient.logger_thread: a greenlet, or None
    greenlets,      \* greenlets[g]: "alive" or "dead", for every one spawned
    sockets,        \* ZMQClient.xsub, xpub, mon_pub, mon_sub
    client_calls    \* the calls made on the ZMQClient and how each ended

queue_vars ==
    <<subscriber, sent, inbox, arrived, handled, receive_calls, context,
      thread, logger_thread, greenlets, sockets, client_calls>>

ClientSockets == {"xsub", "xpub", "mon_pub", "mon_sub"}

NoSubscriber ==
    [state |-> "none", queue_name |-> <<>>, message_handler |-> "-"]

\* Nothing was sent and the ZMQClient was constructed (lines 129-134).
NoQueue ==
    /\ subscriber = NoSubscriber
    /\ sent = <<>>
    /\ inbox = <<>>
    /\ arrived = <<>>
    /\ handled = <<>>
    /\ receive_calls = <<>>
    /\ context = "live"
    /\ thread = None
    /\ logger_thread = None
    /\ greenlets = <<>>
    /\ sockets = [k \in ClientSockets |-> "unset"]
    /\ client_calls = <<>>

\* The users of a server (packages/syft/src/syft/service/user/user_service.py).
VARIABLES
    users,       \* the UserStash: users[uid] is the stored User
    user_ret,    \* the last UserService.update call: who called, how it ended
    user_calls   \* create and register calls in progress

user_vars == <<users, user_ret, user_calls>>

\* The roles, lowest first, and the users a server starts with: the root
\* admin, a data owner and a data scientist.
Roles == <<"GUEST", "DATA_SCIENTIST", "DATA_OWNER", "ADMIN">>

User(email, role) == [email |-> email, role |-> role, name |-> "-"]

InitialUsers ==
    <<User("root", "ADMIN"), User("owner", "DATA_OWNER"),
      User("scientist", "DATA_SCIENTIST")>>

NoUserCalls == [c \in CallIds |-> [at |-> "idle"]]

NoUsers ==
    /\ users = InitialUsers
    /\ user_ret = [caller_role |-> "-", err |-> "-"]
    /\ user_calls = NoUserCalls

(* ------------------------------ Project -------------------------------- *)

EmptyMap == [i \in {} |-> NoEvent]

NewProject ==
    [events |-> <<>>,
     event_id_hashmap |-> EmptyMap,
     state_sync_leader |-> Leader,
     members |-> Members]

\* Project.has_permission(verify_key)
has_permission(project, credentials) == credentials \in {"L", "U"}

\* Python's list[k:] for k >= 0
PySliceFrom(s, k) ==
    IF k >= Len(s) THEN <<>> ELSE SubSeq(s, k + 1, Len(s))

\* Python's d[key] = value
DictSet(d, key, value) ==
    [i \in (DOMAIN d) \cup {key} |-> IF i = key THEN value ELSE d[i]]

(* ----------------------------- validators ------------------------------ *)
\* The validators are wrapped by @as_result: they hand back "Ok" or the error
\* and raise nothing themselves; a caller raises by unwrapping the result.

validate_project_leader_always_ok(server, project) == "Ok"

validate_project_leader(server, project) ==
    IF project.state_sync_leader # server THEN "not_leader" ELSE "Ok"

validate_user_permission_for_project(credentials, project) ==
    IF ~has_permission(project, credentials) THEN "no_permission" ELSE "Ok"

validate_project_event_seq(project_event, project) ==
    IF project_event.seq_no = None THEN "seq_none"
    ELSE IF project_event.seq_no <= Len(project.events) /\ Len(project.events) > 0
         THEN "out_of_sync"
    ELSE IF project_event.seq_no > Len(project.events) + 1 THEN "out_of_order"
    ELSE "Ok"

is_project_leader_any_caller(credentials, project) == TRUE

is_project_leader(credentials, project) ==
    credentials = project.state_sync_leader

\* project.events.append(project_event)
\* project.event_id_hashmap[project_event.id] = project_event
AppendEvent(project, project_event) ==
    [project EXCEPT
        !.events = Append(@, project_event),
        !.event_id_hashmap = DictSet(@, project_event.id, project_event)]

\* check_for_project_request: "none" when no notification is due, else what
\* became of the one notification it sends.  Wrapped by @as_result and never
\* unwrapped by its callers.
\* A check that notifies for every ProjectRequest, wherever it is linked to.
check_for_every_project_request(req, send) ==
    IF req \in {"request_here", "request_elsewhere"}
    THEN (IF send = "SyftError" THEN "send_failed" ELSE "sent")
    ELSE "none"

check_for_project_request(req, send) ==
    IF req = "request_here"
    THEN (IF send = "SyftError" THEN "send_failed" ELSE "sent")
    ELSE "none"

(* ------------------------------ the calls ------------------------------ *)

\* The record of a handler call: its arguments, then what it did.
\*   req        what check_for_project_request read ("unread": never reached)
\*   notif      the notification: "none", "sent", "send_failed"
\*   contacted  the members whose remote add_event was invoked, in order
\*   peer       the member the network error names ("-": none)
\*   env        what the network collaborator had for each member's peer
\*              (NoEnv: the call never came to the member loop)
\*   persisted  whether stash.update stored the project
\*   read       whether the call read the project from the stash
\*   out        what sync returned
Call(op, server, credentials, e, k) ==
    [op |-> op, server |-> server, credentials |-> credentials,
     event |-> e, seq_no |-> k,
     status |-> "fail", err |-> "none", req |-> "unread", notif |-> "none",
     contacted |-> <<>>, peer |-> "-", env |-> NoEnv,
     persisted |-> FALSE, read |-> FALSE, out |-> <<>>]

Init ==
    /\ stash = [n \in Nodes |-> NewProject]
    /\ ret = Call("none", Leader, Leader, NoEvent, 0)
    /\ NoResolve
    /\ NoCalls
    /\ NoQueue
    /\ NoUsers

\* What the handlers of ProjectService leave alone.
beside_project == <<resolve_vars, calls, queue_vars, user_vars>>

\* The results NotificationService.send can give for an event of kind req.
SendFor(req) == IF req = "request_here" THEN SendResults ELSE {"SyftSuccess"}

add_event_checks_caller_only(server, credentials, project) ==
    IF ~is_project_leader(credentials, project) THEN "caller_not_leader" ELSE "Ok"

\* add_event, lines 189-206: the checks before the append; "Ok" or the error
\* the handler raises.
add_event_checks(server, credentials, project) ==
    IF validate_project_leader(server, project) # "Ok" THEN "not_leader"
    ELSE IF ~is_project_leader(credentials, project) THEN "caller_not_leader"
    ELSE "Ok"

\* add_event, lines 184-219, on the stored project: [project, status, err,
\* notif], the project being the one to store (unchanged on failure).
add_event_run(server, credentials, project_event, req, send, project) ==
    LET check == add_event_checks(server, credentials, project)
    IN IF check # "Ok"
       THEN [project |-> project, status |-> "fail", err |-> check, notif |-> "none"]
       ELSE [project |-> AppendEvent(project, project_event),
             status |-> "ok", err |-> "none",
             notif |-> check_for_project_request(req, send)]

add_event(server, credentials, project_event) ==
    LET project == stash[server]
        check == add_event_checks(server, credentials, project)
        call == [Call("add_event", server, credentials, project_event, 0)
                    EXCEPT !.read = TRUE]
    IN IF check # "Ok"
       THEN /\ UNCHANGED stash
            /\ ret' = [call EXCEPT !.err = check]
       ELSE /\ Len(project.events) < MaxLen
            /\ \E req \in ReqKinds : \E send \in SendFor(req) :
                 LET r == add_event_run(server, credentials, project_event,
                                        req, send, project)
                 IN /\ stash' = [stash EXCEPT ![server] = r.project]
                    /\ ret' = [call EXCEPT !.status = r.status, !.err = r.err,
                                           !.req = req, !.notif = r.notif,
                                           !.persisted = TRUE]

sync_run_whole_log(server, credentials, seq_no, project) ==
    [status |-> "ok", err |-> "none", out |-> project.events]

\* sync, lines 296-304, on the stored project: what it returns.  The two
\* validators are called and their results dropped.
sync_run(server, credentials, seq_no, project) ==
    LET leader_check == validate_project_leader(server, project)
        permission_check == validate_user_permission_for_project(credentials, project)
    IN [status |-> "ok", err |-> "none", out |-> PySliceFrom(project.events, seq_no)]

\* sync, lines 287-304.
sync(server, credentials, seq_no) ==
    LET call == Call("sync", server, credentials, NoEvent, seq_no)
    IN /\ UNCHANGED stash
       /\ IF seq_no < 0
          THEN ret' = [call EXCEPT !.err = "negative_seq_no"]
          ELSE LET r == sync_run(server, credentials, seq_no, stash[server])
               IN ret' = [call EXCEPT !.status = r.status, !.err = r.err,
                                      !.read = TRUE, !.out = r.out]

Followers(project, server) ==
    {project.members[i] : i \in DOMAIN project.members} \ {server}

\* broadcast_event, lines 239-243: the checks before the append; "Ok" or the
\* error the handler raises.  The leader check and the sequence check are
\* unwrapped; the permission check's result is dropped (line 242).
broadcast_event_checks(server, credentials, project_event, project) ==
    LET leader_check == validate_project_leader(server, project)
        permission_check == validate_user_permission_for_project(credentials, project)
        seq_check == validate_project_event_seq(project_event, project)
    IN IF leader_check # "Ok" THEN leader_check
       ELSE IF seq_check # "Ok" THEN seq_check
       ELSE "Ok"

RECURSIVE deliver_skipping_unreachable(_, _, _, _, _, _, _)
deliver_skipping_unreachable(i, st, contacted, server, project_event, env, mode) ==
    LET members == st[server].members
    IN IF i > Len(members)
       THEN [stash |-> st, contacted |-> contacted, err |-> "none", peer |-> "-"]
       ELSE LET member == members[i]
            IN IF member = server \/ env[member] # "ok"
               THEN deliver_skipping_unreachable(i + 1, st, contacted, server,
                                                 project_event, env, mode)
               ELSE LET r == add_event_run(member, server, project_event,
                                           "other", "SyftSuccess", st[member])
                        st2 == [st EXCEPT ![member] = r.project]
                        c2 == Append(contacted, member)
                    IN IF r.status = "fail" /\ mode = "raise"
                       THEN [stash |-> st2, contacted |-> c2,
                             err |-> "remote_error", peer |-> member]
                       ELSE deliver_skipping_unreachable(i + 1, st2, c2, server,
                                                         project_event, env, mode)

\* broadcast_event, lines 251-273: the loop over project.members from index i
\* on.  st is the stashes so far, contacted the members whose add_event was
\* invoked.  The remote add_event runs the member's own handler with the
\* calling server's key as credentials; the event's linked request, if any,
\* names the calling server, so on the member it reads as "other".
\* Gives [stash, contacted, err, peer].
\* A member loop that stores the leader's appended project when it aborts.
RECURSIVE deliver_storing_local_append(_, _, _, _, _, _, _)
deliver_storing_local_append(i, st, contacted, server, project_event, env, mode) ==
    LET members == st[server].members
        kept == [st EXCEPT ![server] = AppendEvent(st[server], project_event)]
    IN IF i > Len(members)
       THEN [stash |-> st, contacted |-> contacted, err |-> "none", peer |-> "-"]
       ELSE LET member == members[i]
            IN IF member = server
               THEN deliver_storing_local_append(i + 1, st, contacted, server,
                                                 project_event, env, mode)
               ELSE IF env[member] # "ok"
               THEN [stash |-> kept, contacted |-> contacted,
                     err |-> env[member], peer |-> member]
               ELSE LET r == add_event_run(member, server, project_event,
                                           "other", "SyftSuccess", st[member])
                        c2 == Append(contacted, member)
                    IN IF r.status = "fail" /\ mode = "raise"
                       THEN [stash |-> kept, contacted |-> c2,
                             err |-> "remote_error", peer |-> member]
                       ELSE deliver_storing_local_append(i + 1, st, c2, server,
                                                         project_event, env, mode)

RECURSIVE deliver(_, _, _, _, _, _, _)
deliver(i, st, contacted, server, project_event, env, mode) ==
    LET members == st[server].members
    IN IF i > Len(members)
       THEN [stash |-> st, contacted |-> contacted, err |-> "none", peer |-> "-"]
       ELSE LET member == members[i]
            IN IF member = server
               THEN deliver(i + 1, st, contacted, server, project_event, env, mode)
               ELSE IF env[member] = "no_peer"
               THEN [stash |-> st, contacted |-> contacted,
                     err |-> "no_peer", peer |-> member]
               ELSE IF env[member] = "no_client"
               THEN [stash |-> st, contacted |-> contacted,
                     err |-> "no_client", peer |-> member]
               ELSE LET r == add_event_run(member, server, project_event,
                                           "other", "SyftSuccess", st[member])
                        st2 == [st EXCEPT ![member] = r.project]
                        c2 == Append(contacted, member)
                    IN IF r.status = "fail" /\ mode = "raise"
                       THEN [stash |-> st2, contacted |-> c2,
                             err |-> "remote_error", peer |-> member]
                       ELSE deliver(i + 1, st2, c2, server, project_event, env, mode)

\* broadcast_event, lines 227-280.  The project read from the stash is the
\* handler's own copy: the append reaches the stash only through the
\* stash.update of line 275.
broadcast_event(server, credentials, project_event) ==
    LET project == stash[server]
        check == broadcast_event_checks(server, credentials, project_event, project)
        call == [Call("broadcast_event", server, credentials, project_event, 0)
                    EXCEPT !.read = TRUE]
    IN IF check # "Ok"
       THEN /\ UNCHANGED stash
            /\ ret' = [call EXCEPT !.err = check]
       ELSE /\ Len(project.events) < MaxLen
            /\ \E req \in ReqKinds : \E send \in SendFor(req) :
               \E env \in [Followers(project, server) -> PeerOutcomes] :
               \E mode \in RemoteErrorModes :
                 LET updated == AppendEvent(project, project_event)
                     notif == check_for_project_request(req, send)
                     d == deliver(1, stash, <<>>, server, project_event, env, mode)
                     done == [call EXCEPT !.req = req, !.notif = notif,
                                          !.contacted = d.contacted,
                                          !.env = env]
                 IN /\ \A n \in Nodes : Len(d.stash[n].events) <= MaxLen
                    /\ IF d.err # "none"
                       THEN /\ stash' = d.stash
                            /\ ret' = [done EXCEPT !.err = d.err, !.peer = d.peer]
                       ELSE /\ stash' = [d.stash EXCEPT ![server] = updated]
                            /\ ret' = [done EXCEPT !.status = "ok",
                                                   !.persisted = TRUE]

AddEvent ==
    /\ \E n \in Callees, c \in Keys, e \in Events : add_event(n, c, e)
    /\ UNCHANGED beside_project

BroadcastEvent ==
    /\ \E n \in Callees, c \in Keys, e \in Events : broadcast_event(n, c, e)
    /\ UNCHANGED beside_project

Sync ==
    /\ \E n \in Callees, c \in Keys, k \in (-1) .. (MaxLen + 1) : sync(n, c, k)
    /\ UNCHANGED beside_project

Next == AddEvent \/ BroadcastEvent \/ Sync

Spec == Init /\ [][Next]_vars

(* ------------------------------ the claims ----------------------------- *)

LeaderLog == stash[Leader].events

SeqErrors == {"seq_none", "out_of_sync", "out_of_order"}

\* C1: on the leader, with N events in the log, broadcast_event accepts an
\* event only when its seq_no is N + 1; every other seq_no is rejected with a
\* sequence error and the stashes are left as they were.
C1_OnlyNextSeqNoAccepted ==
    [][(/\ ret'.op = "broadcast_event"
        /\ ret'.server = Leader
        /\ ret'.event.seq_no # Len(LeaderLog) + 1)
       => (/\ ret'.status = "fail"
           /\ ret'.err \in SeqErrors
           /\ stash' = stash)]_vars

\* C2: broadcast_event on a server that is not the project's leader fails with
\* the leader error; nothing is appended or stored, no notification is sent
\* and no member is contacted.
C2_NonLeaderBroadcastRejected ==
    [][(/\ ret'.op = "broadcast_event"
        /\ ret'.server # stash[ret'.server].state_sync_leader)
       => (/\ ret'.status = "fail"
           /\ ret'.err = "not_leader"
           /\ stash' = stash
           /\ ~ret'.persisted
           /\ ret'.notif = "none"
           /\ ret'.contacted = <<>>
           /\ ret'.peer = "-")]_vars

\* C2 witness: a follower was asked to broadcast the next event in sequence
\* for a permitted user, and refused.
C2_Witness ==
    /\ ret.op = "broadcast_event"
    /\ ret.server = "F1"
    /\ ret.credentials = "U"
    /\ ret.event.seq_no = 1
    /\ ret.status = "fail"

\* C3: broadcast_event on the leader for a caller without project permission
\* fails before any append: nothing is stored and no member is contacted.
C3_NoPermissionBroadcastRejected ==
    [][(/\ ret'.op = "broadcast_event"
        /\ ret'.server = Leader
        /\ ~has_permission(stash[Leader], ret'.credentials))
       => (/\ ret'.status = "fail"
           /\ stash' = stash
           /\ ~ret'.persisted
           /\ ret'.contacted = <<>>)]_vars

\* C4: the event at position i of the leader's log has seq_no i.
C4_LeaderLogGapFree ==
    \A i \in 1 .. Len(LeaderLog) : LeaderLog[i].seq_no = i

\* C5: after a broadcast_event that returned success, every other member
\* holds the event and its log is a copy of the leader's.
C5_BroadcastReplicates ==
    (ret.op = "broadcast_event" /\ ret.status = "ok")
    => \A m \in Followers(stash[ret.server], ret.server) :
          /\ \E i \in 1 .. Len(stash[m].events) : stash[m].events[i] = ret.event
          /\ stash[m].events = stash[ret.server].events

\* C6: an add_event call made directly on a server that is not the leader is
\* rejected and changes no stored project.
C6_NonLeaderAddEventRejected ==
    [][(/\ ret'.op = "add_event"
        /\ ret'.server # stash[ret'.server].state_sync_leader)
       => (/\ ret'.status = "fail"
           /\ ~ret'.persisted
           /\ stash' = stash)]_vars

\* C6 witness: a follower refused an add_event that carried the leader's key.
C6_Witness ==
    /\ ret.op = "add_event"
    /\ ret.server = "F1"
    /\ ret.credentials = Leader
    /\ ret.status = "fail"
    /\ Len(LeaderLog) > 0

\* C7: add_event succeeds exactly when the server is the leader and the
\* caller's credentials are the leader's key; on success the event is appended
\* as the last element, indexed and stored; on failure nothing changes.
C7_AddEventExactlyForLeader ==
    [][ret'.op = "add_event"
       => LET n == ret'.server
          IN /\ (ret'.status = "ok")
                  <=> (/\ n = stash[n].state_sync_leader
                       /\ ret'.credentials = stash[n].state_sync_leader)
             /\ ret'.status = "ok"
                  => /\ stash'[n].events = Append(stash[n].events, ret'.event)
                     /\ ret'.event.id \in DOMAIN stash'[n].event_id_hashmap
                     /\ stash'[n].event_id_hashmap[ret'.event.id] = ret'.event
                     /\ ret'.persisted
                     /\ \A m \in Nodes \ {n} : stash'[m] = stash[m]
             /\ ret'.status # "ok" => stash' = stash]_vars

\* C7 witness: the leader added an event to a log that already held one.
C7_Witness ==
    /\ ret.op = "add_event"
    /\ ret.status = "ok"
    /\ Len(LeaderLog) = 2
    /\ LeaderLog[2] = ret.event

\* C8: on every server event_id_hashmap is the index of events by id: same
\* ids, as many entries as events, and each id mapped to its event.
C8_HashmapIsIndexOfEvents ==
    \A n \in Nodes :
        LET ev == stash[n].events
            hm == stash[n].event_id_hashmap
        IN /\ DOMAIN hm = {ev[i].id : i \in 1 .. Len(ev)}
           /\ Cardinality(DOMAIN hm) = Len(ev)
           /\ \A i \in 1 .. Len(ev) : hm[ev[i].id] = ev[i]

\* events[k:] written out position by position.
Suffix(ev, k) ==
    IF k >= Len(ev) THEN <<>> ELSE [i \in 1 .. (Len(ev) - k) |-> ev[i + k]]

\* C9: sync(project_id, k) returns the suffix events[k:] of the stored log in
\* log order, the empty sequence for k = len(events), and for k < 0 fails
\* without reading the project or returning an event.
C9_SyncReturnsSuffix ==
    ret.op = "sync"
    => LET ev == stash[ret.server].events
       IN IF ret.seq_no < 0
          THEN ret.status = "fail" /\ ~ret.read /\ ret.out = <<>>
          ELSE /\ ret.status = "ok" => ret.out = Suffix(ev, ret.seq_no)
               /\ ret.status # "ok" => ret.out = <<>>
               /\ (ret.status = "ok" /\ ret.seq_no = Len(ev)) => ret.out = <<>>

\* C9 witness: sync returned a proper, non-empty suffix of a two-event log.
C9_Witness ==
    /\ ret.op = "sync"
    /\ ret.status = "ok"
    /\ ret.seq_no = 1
    /\ Len(stash[ret.server].events) = 2
    /\ ret.out = <<stash[ret.server].events[2]>>

\* C10: sync fails and returns no event when the server is not the project's
\* leader or the caller has no project permission.
C10_SyncRequiresLeaderAndPermission ==
    (/\ ret.op = "sync"
     /\ \/ ret.server # stash[ret.server].state_sync_leader
        \/ ~has_permission(stash[ret.server], ret.credentials))
    => (ret.status = "fail" /\ ret.out = <<>>)

\* The network errors of the member loop.
PeerErrors == {"no_peer", "no_client"}

\* Place of member m in the member list of the recorded call's project.
MemberIndex(m) ==
    CHOOSE i \in DOMAIN stash[ret.server].members :
        stash[ret.server].members[i] = m

\* The members of the recorded call whose peer was unknown or whose client
\* could not be opened.
Unreachable == {m \in DOMAIN ret.env : ret.env[m] # "ok"}

\* The first of them in member-list order.
FirstUnreachable ==
    CHOOSE m \in Unreachable :
        \A o \in Unreachable : MemberIndex(m) <= MemberIndex(o)

\* C11: when a member's peer cannot be resolved or no client to it can be
\* opened, broadcast_event fails and stores nothing; neither that member nor
\* any member after it in the member list is contacted, and unless the call
\* had already stopped on an earlier member's remote error, its error is that
\* member's network error and names that member.
C11_PeerFailureAbortsBroadcast ==
    (ret.op = "broadcast_event" /\ Unreachable # {})
    => /\ ret.status = "fail"
       /\ ~ret.persisted
       /\ \A i \in 1 .. Len(ret.contacted) :
             MemberIndex(ret.contacted[i]) < MemberIndex(FirstUnreachable)
       /\ ret.err # "remote_error"
            => /\ ret.err = ret.env[FirstUnreachable]
               /\ ret.peer = FirstUnreachable

\* C11 witness: the first member was contacted, the last member's peer was
\* unknown, and the call stopped there naming it.
C11_Witness ==
    /\ ret.op = "broadcast_event"
    /\ ret.env = [m \in {"F1", "F2"} |-> IF m = "F2" THEN "no_peer" ELSE "ok"]
    /\ ret.err = "no_peer"
    /\ ret.peer = "F2"
    /\ ret.contacted = <<"F1">>

\* C12: a broadcast_event that failed on a peer has invoked add_event on no
\* member, never on some members and not on the others.
C12_FailedBroadcastReachedNoMember ==
    (/\ ret.op = "broadcast_event"
     /\ ret.status = "fail"
     /\ ret.err \in PeerErrors \cup {"remote_error"})
    => ret.contacted = <<>>

\* C13: when the notification for a ProjectRequest of this server could not
\* be sent, the add_event or broadcast_event call fails.
C13_NotificationFailureFailsCall ==
    (ret.op \in {"add_event", "broadcast_event"} /\ ret.notif = "send_failed")
    => ret.status = "fail"

\* A broadcast_event call the member loop aborted.
AbortedByPeer ==
    /\ ret'.op = "broadcast_event"
    /\ ret'.status = "fail"
    /\ ret'.err \in PeerErrors \cup {"remote_error"}

OtherMembers ==
    SelectSeq(stash[ret'.server].members, LAMBDA m : m # ret'.server)

\* C29: a successful broadcast_event appends the event to the leader's log,
\* invokes add_event once on every member other than the leader's own node, in
\* member-list order and never on the leader itself, and has persisted the
\* project when it returns; it persists only when every member was contacted.
C29_SuccessfulBroadcastReachesEveryMember ==
    [][ret'.op = "broadcast_event"
       => /\ ret'.status = "ok"
             => /\ ret'.contacted = OtherMembers
                /\ ret'.persisted
                /\ stash'[ret'.server].events
                       = Append(stash[ret'.server].events, ret'.event)
          /\ ret'.persisted
             => (ret'.status = "ok" /\ ret'.contacted = OtherMembers)]_vars

\* The second event of the log was broadcast to F1 and then F2.
C29_Witness ==
    /\ ret.op = "broadcast_event"
    /\ ret.status = "ok"
    /\ ret.contacted = <<"F1", "F2">>
    /\ ret.persisted
    /\ Len(LeaderLog) = 2
    /\ LeaderLog[2] = ret.event

\* C30: add_event and broadcast_event send a notification exactly when the
\* event is a ProjectRequest whose linked request names this server, and one
\* at most; for every other event that reaches the check they send none.
C30_NotificationOnlyForRequestHere ==
    (ret.op \in {"add_event", "broadcast_event"} /\ ret.req # "unread")
    => /\ ret.notif \in {"sent", "send_failed"} <=> ret.req = "request_here"
       /\ ret.req \in {"other", "request_elsewhere"} => ret.notif = "none"

\* A ProjectRequest linked to another server was broadcast and nobody was
\* notified.
C30_Witness ==
    /\ ret.op = "broadcast_event"
    /\ ret.status = "ok"
    /\ ret.req = "request_elsewhere"
    /\ ret.notif = "none"

\* C31: no add_event, broadcast_event or sync call changes a stored project's
\* state_sync_leader or member list, and a stored project's events or
\* event_id_hashmap change only on the server that its state_sync_leader
\* names, the one where the call's leader check passes.
C31_WritesOnlyUnderLeaderCheck ==
    [][ \A n \in Nodes :
          /\ stash'[n].state_sync_leader = stash[n].state_sync_leader
          /\ stash'[n].members = stash[n].members
          /\ (\/ stash'[n].events # stash[n].events
              \/ stash'[n].event_id_hashmap # stash[n].event_id_hashmap)
             => /\ stash[n].state_sync_leader = n
                /\ ret'.op \in {"add_event", "broadcast_event"} ]_vars

\* Events were written on the leader by a call that passed the leader check,
\* and the leader and the members are the ones fixed at creation.
C31_Witness ==
    /\ ret.op = "add_event"
    /\ ret.status = "ok"
    /\ ret.server = Leader
    /\ Len(LeaderLog) = 2
    /\ \A n \in Nodes : /\ stash[n].state_sync_leader = Leader
                        /\ stash[n].members = Members

(* ======================================================================= *)
(* resolve: turning a NodeDiff into sync decisions                         *)
(* (packages/syft/src/syft/client/syncing.py).                             *)
(*                                                                         *)
(* One call of resolve is followed from its first batch to its return or   *)
(* its ValueError.  The call runs on its own up to the next input() and    *)
(* each line the user types is one step.                                   *)
(* ======================================================================= *)

(* ----------------------------- bounds --------------------------------- *)

\* Most batches in state.hierarchies, and most diffs in one batch.
MaxBatches == 2
MaxDiffs == 3

\* Most lines the user types at one prompt before the model stops following
\* the prompt loop.
MaxInputs == 2

(* ------------------------- values and inputs --------------------------- *)

\* diff.high_obj of a diff that has no object on the high side.
NoObject ==
    [class |-> "None", has_private_sync_attrs |-> FALSE, user_verify_key |-> "-"]

HighObj(class, private, key) ==
    [class |-> class, has_private_sync_attrs |-> private, user_verify_key |-> key]

\* An ObjectDiff.  str(object_id) is written as the tuple of its characters.
Diff(id, status, high_obj) ==
    [object_id |-> id, status |-> status, high_obj |-> high_obj]

\* The diffs batches are made of: two UserCodes of two users, a Job, a Job that
\* has private sync attributes, two private results whose ids start with the
\* same three characters, and an unchanged object.
Code1 == Diff(<<"c", "0", "d", "1">>, "NEW", HighObj("UserCode", FALSE, "alice"))
Code2 == Diff(<<"c", "0", "d", "2">>, "NEW", HighObj("UserCode", FALSE, "bob"))
Job1 == Diff(<<"j", "0", "b", "1">>, "NEW", HighObj("Job", FALSE, "-"))
PrivateJob == Diff(<<"a", "b", "d", "1">>, "NEW", HighObj("Job", TRUE, "-"))
Result1 == Diff(<<"a", "b", "c", "1">>, "NEW", HighObj("ActionObject", TRUE, "-"))
Result2 == Diff(<<"a", "b", "c", "2">>, "MODIFIED", HighObj("ActionObject", TRUE, "-"))
Unchanged == Diff(<<"l", "0", "g", "1">>, "SAME", HighObj("SyftLog", FALSE, "-"))

DiffPool ==
    <<Result1, Job1, Code1, Result2, PrivateJob, Unchanged, Code2>>

\* The diffs of DiffPool at the places in S, in DiffPool's order.
RECURSIVE PickDiffs(_, _)
PickDiffs(S, i) ==
    IF i > Len(DiffPool) THEN <<>>
    ELSE (IF i \in S THEN <<DiffPool[i]>> ELSE <<>>) \o PickDiffs(S, i + 1)

\* batch_diff.diffs of every batch: object ids are unique within a batch.
Batches ==
    {PickDiffs(S, 1) :
        S \in {T \in SUBSET DOMAIN DiffPool : T # {} /\ Cardinality(T) <= MaxDiffs}}

NodeDiffs == UNION {[1 .. n -> Batches] : n \in 0 .. MaxBatches}

\* The decision argument: not given, a side, or another string.
Decisions == {"None", "low", "Low"}

\* Lines typed at the side prompt, and str.lower of each.
SideInputs == {"low", "HIGH", "both"}

lower(line) ==
    CASE line = "HIGH" -> "high"
      [] line = "Low" -> "low"
      [] OTHER -> line

\* Lines typed at the sharing prompt: "no", a line of two characters, the
\* first three characters of an id (of one candidate, of two, of none) and
\* whole ids.
ShareInputs ==
    { <<"n", "o">>, <<"a", "b">>, <<"a", "b", "c">>, <<"a", "b", "d">>,
      <<"a", "b", "c", "1">>, <<"a", "b", "c", "2">> }

(* --------------------------- pure functions ---------------------------- *)

\* Python's `x in list`.
InList(x, list) == \E i \in DOMAIN list : list[i] = x

\* list.remove(x): the list without the first place that holds x.
ListRemove(list, x) ==
    LET at == CHOOSE i \in DOMAIN list :
                  list[i] = x /\ \A j \in 1 .. (i - 1) : list[j] # x
    IN  SubSeq(list, 1, at - 1) \o SubSeq(list, at + 1, Len(list))

\* str.startswith.
startswith(text, prefix) ==
    /\ Len(prefix) <= Len(text)
    /\ SubSeq(text, 1, Len(prefix)) = prefix

\* diff.high_obj is not None and diff.high_obj._has_private_sync_attrs()
has_private_high_obj(diff) ==
    diff.high_obj # NoObject /\ diff.high_obj.has_private_sync_attrs

unpublished_private_high_diffs(diffs) ==
    SelectSeq(diffs, LAMBDA diff : has_private_high_obj(diff))

user_codes_high(diffs) ==
    LET codes == SelectSeq(diffs, LAMBDA diff : diff.high_obj.class = "UserCode")
    IN  [i \in DOMAIN codes |-> codes[i].high_obj]

\* user_code_high; NoObject stands for None.
user_code_high(diffs) ==
    IF Len(user_codes_high(diffs)) = 0 THEN NoObject
    ELSE user_codes_high(diffs)[1]

\* A check that lets every batch pass.
no_governing_error(diffs) == "none"

\* The ValueError raised before the sharing decision is taken, or "none".
governing_error(diffs) ==
    IF Len(user_codes_high(diffs)) > 1 THEN "too many user codes"
    ELSE IF /\ user_code_high(diffs) = NoObject
            /\ Len(unpublished_private_high_diffs(diffs)) > 0
         THEN "Found unpublished private objects without user code"
         ELSE "none"

\* A grant of another permission than READ.
WritePermission(diff, user_code) ==
    [uid |-> diff.object_id, permission |-> "WRITE",
     credentials |-> user_code.user_verify_key]

ReadPermission(diff, user_code) ==
    [uid |-> diff.object_id, permission |-> "READ",
     credentials |-> user_code.user_verify_key]

\* A loop body that grants READ on every private diff, selected or not.
sync_decision_sharing_all_private(diff, side, diffs, to_share) ==
    LET private == InList(diff, unpublished_private_high_diffs(diffs))
        granted == diff.high_obj.class = "Job" \/ private
    IN  [diff |-> diff, decision |-> side,
         new_permissions_lowside |->
             IF granted THEN <<ReadPermission(diff, user_code_high(diffs))>>
             ELSE <<>>,
         mockify |-> FALSE]

\* A loop body that never asks for a placeholder.
sync_decision_never_mockify(diff, side, diffs, to_share) ==
    LET granted ==
            \/ diff.high_obj.class = "Job"
            \/ /\ InList(diff, unpublished_private_high_diffs(diffs))
               /\ InList(diff, to_share)
    IN  [diff |-> diff, decision |-> side,
         new_permissions_lowside |->
             IF granted THEN <<ReadPermission(diff, user_code_high(diffs))>>
             ELSE <<>>,
         mockify |-> FALSE]

\* A loop body that tests the private branches before the Job branch.
sync_decision_private_before_job(diff, side, diffs, to_share) ==
    LET private == InList(diff, unpublished_private_high_diffs(diffs))
        shared == InList(diff, to_share)
        granted == (private /\ shared) \/ (~private /\ diff.high_obj.class = "Job")
    IN  [diff |-> diff, decision |-> side,
         new_permissions_lowside |->
             IF granted THEN <<ReadPermission(diff, user_code_high(diffs))>>
             ELSE <<>>,
         mockify |-> private /\ ~shared]

\* A loop body that, once a diff of the batch is shared, grants READ on every
\* diff of the batch.
sync_decision_granting_whole_batch(diff, side, diffs, to_share) ==
    LET granted == diff.high_obj.class = "Job" \/ Len(to_share) > 0
        private == InList(diff, unpublished_private_high_diffs(diffs))
    IN  [diff |-> diff, decision |-> side,
         new_permissions_lowside |->
             IF granted THEN <<ReadPermission(diff, user_code_high(diffs))>>
             ELSE <<>>,
         mockify |-> private /\ ~granted]

\* The SyncDecision the loop over batch_diff.diffs appends for one diff.
sync_decision(diff, side, diffs, to_share) ==
    LET is_unpublished_private_diff ==
            InList(diff, unpublished_private_high_diffs(diffs))
        has_share_decision == InList(diff, to_share)
        verdict ==
            IF diff.high_obj.class = "Job"
            THEN [perms |-> <<ReadPermission(diff, user_code_high(diffs))>>,
                  mockify |-> FALSE]
            ELSE IF is_unpublished_private_diff /\ has_share_decision
            THEN [perms |-> <<ReadPermission(diff, user_code_high(diffs))>>,
                  mockify |-> FALSE]
            ELSE IF is_unpublished_private_diff /\ ~has_share_decision
            THEN [perms |-> <<>>, mockify |-> TRUE]
            ELSE [perms |-> <<>>, mockify |-> FALSE]
    IN  [diff |-> diff, decision |-> side,
         new_permissions_lowside |-> verdict.perms, mockify |-> verdict.mockify]

\* A loop over the diffs that never raises.
sync_decisions_never_failing(diffs) == "none"

\* The loop over batch_diff.diffs: the ValueError it raises, or "none" ...
sync_decisions_error(diffs) ==
    IF \E i \in DOMAIN diffs :
           diffs[i].high_obj.class = "Job" /\ user_code_high(diffs) = NoObject
    THEN "Job without user code"
    ELSE "none"

\* A loop that makes decisions for the changed diffs of a batch only.
sync_decisions_of_changed(diffs, side, to_share) ==
    LET changed == SelectSeq(diffs, LAMBDA diff : diff.status # "SAME")
    IN  [i \in DOMAIN changed |-> sync_decision(changed[i], side, diffs, to_share)]

\* ... and the list it returns.
sync_decisions(diffs, side, to_share) ==
    [i \in DOMAIN diffs |-> sync_decision(diffs[i], side, diffs, to_share)]

\* ResolvedSyncState.add_sync_decision for each decision of a batch.
add_sync_decisions(resolved_state, decisions) == resolved_state \o decisions

\* A test no batch passes.
NeverAllSame(diffs) == FALSE

AllSame(diffs) == \A i \in DOMAIN diffs : diffs[i].status = "SAME"

ObjectIds(diffs) == [i \in DOMAIN diffs |-> diffs[i].object_id]

\* What the user is shown.
SidePrompt(n) == [prompt |-> "side", batch |-> n, objects |-> <<>>]
ChoosePrompt(n) == [prompt |-> "choose", batch |-> n, objects |-> <<>>]
SharePrompt(n, diffs) == [prompt |-> "share", batch |-> n, objects |-> ObjectIds(diffs)]

(* ------------------------------ the call ------------------------------- *)

batch_diff == hierarchies[batch_no]

\* What resolve leaves alone.
beside_resolve == <<vars, calls, queue_vars, user_vars>>

InitResolve ==
    /\ stash = [n \in Nodes |-> NewProject]
    /\ ret = Call("none", Leader, Leader, NoEvent, 0)
    /\ hierarchies \in NodeDiffs
    /\ decision \in Decisions
    /\ share_private_objects \in BOOLEAN
    /\ pc = "for"
    /\ batch_no = 1
    /\ batch_decision = "None"
    /\ remaining_private_high_diffs = <<>>
    /\ private_high_diffs_to_share = <<>>
    /\ inputs = 0
    /\ typed = <<>>
    /\ prompts = <<>>
    /\ resolved_state_low = <<>>
    /\ resolved_state_high = <<>>
    /\ raised = "none"
    /\ NoCalls
    /\ NoQueue
    /\ NoUsers

\* A resolve that adds the decisions of a batch to the low accumulator only.
decide_batch_low_only(side, to_share) ==
    IF sync_decisions_error(batch_diff) # "none"
    THEN /\ pc' = "raised"
         /\ raised' = sync_decisions_error(batch_diff)
         /\ UNCHANGED <<batch_no, resolved_state_low, resolved_state_high>>
    ELSE /\ pc' = "for"
         /\ batch_no' = batch_no + 1
         /\ resolved_state_low' =
                add_sync_decisions(resolved_state_low,
                                   sync_decisions(batch_diff, side, to_share))
         /\ UNCHANGED <<resolved_state_high, raised>>

\* Lines 119-167 and 71-75: the decisions of the batch are made with the
\* sharing selection to_share and added to both accumulators, and the loop of
\* resolve goes on to the next batch; or the ValueError ends the call.
decide_batch(side, to_share) ==
    IF sync_decisions_error(batch_diff) # "none"
    THEN /\ pc' = "raised"
         /\ raised' = sync_decisions_error(batch_diff)
         /\ UNCHANGED <<batch_no, resolved_state_low, resolved_state_high>>
    ELSE /\ pc' = "for"
         /\ batch_no' = batch_no + 1
         /\ resolved_state_low' =
                add_sync_decisions(resolved_state_low,
                                   sync_decisions(batch_diff, side, to_share))
         /\ resolved_state_high' =
                add_sync_decisions(resolved_state_high,
                                   sync_decisions(batch_diff, side, to_share))
         /\ UNCHANGED raised

\* A batch resolution that asks the user whatever share_private_objects is.
get_sync_decisions_always_asking(side) ==
    LET private == unpublished_private_high_diffs(batch_diff)
    IN  /\ batch_decision' = side
        /\ inputs' = 0
        /\ IF governing_error(batch_diff) # "none"
           THEN /\ pc' = "raised"
                /\ raised' = governing_error(batch_diff)
                /\ UNCHANGED <<batch_no, resolved_state_low, resolved_state_high,
                               remaining_private_high_diffs,
                               private_high_diffs_to_share, prompts>>
           ELSE IF Len(private) = 0
           THEN /\ private_high_diffs_to_share' = <<>>
                /\ decide_batch(side, <<>>)
                /\ UNCHANGED <<remaining_private_high_diffs, prompts>>
           ELSE /\ pc' = "share_prompt"
                /\ remaining_private_high_diffs' = private
                /\ private_high_diffs_to_share' = <<>>
                /\ prompts' = Append(prompts, SharePrompt(batch_no, private))
                /\ UNCHANGED <<batch_no, resolved_state_low,
                               resolved_state_high, raised>>

\* A resolve that notes the ValueError of a batch and goes on to the next one.
get_sync_decisions_skipping_failed_batch(side) ==
    LET private == unpublished_private_high_diffs(batch_diff)
    IN  /\ batch_decision' = side
        /\ inputs' = 0
        /\ IF governing_error(batch_diff) # "none"
           THEN /\ pc' = "for"
                /\ batch_no' = batch_no + 1
                /\ raised' = governing_error(batch_diff)
                /\ UNCHANGED <<resolved_state_low, resolved_state_high,
                               remaining_private_high_diffs,
                               private_high_diffs_to_share, prompts>>
           ELSE IF share_private_objects \/ Len(private) = 0
           THEN /\ private_high_diffs_to_share' = private
                /\ decide_batch(side, private)
                /\ UNCHANGED <<remaining_private_high_diffs, prompts>>
           ELSE /\ pc' = "share_prompt"
                /\ remaining_private_high_diffs' = private
                /\ private_high_diffs_to_share' = <<>>
                /\ prompts' = Append(prompts, SharePrompt(batch_no, private))
                /\ UNCHANGED <<batch_no, resolved_state_low,
                               resolved_state_high, raised>>

\* Lines 65-69 and 91-117: get_sync_decisions_for_batch_items up to the point
\* where it has the sharing selection or has to ask the user for it.
get_sync_decisions_for_batch_items(side) ==
    LET private == unpublished_private_high_diffs(batch_diff)
    IN  /\ batch_decision' = side
        /\ inputs' = 0
        /\ IF governing_error(batch_diff) # "none"
           THEN /\ pc' = "raised"
                /\ raised' = governing_error(batch_diff)
                /\ UNCHANGED <<batch_no, resolved_state_low, resolved_state_high,
                               remaining_private_high_diffs,
                               private_high_diffs_to_share, prompts>>
           ELSE IF share_private_objects
           THEN /\ private_high_diffs_to_share' = private
                /\ decide_batch(side, private)
                /\ UNCHANGED <<remaining_private_high_diffs, prompts>>
           ELSE IF Len(private) = 0
           THEN /\ private_high_diffs_to_share' = <<>>
                /\ decide_batch(side, <<>>)
                /\ UNCHANGED <<remaining_private_high_diffs, prompts>>
           ELSE /\ pc' = "share_prompt"
                /\ remaining_private_high_diffs' = private
                /\ private_high_diffs_to_share' = <<>>
                /\ prompts' = Append(prompts, SharePrompt(batch_no, private))
                /\ UNCHANGED <<batch_no, resolved_state_low,
                               resolved_state_high, raised>>

\* Lines 46-63 and 81: the head of the loop over state.hierarchies.
resolve ==
    /\ pc = "for"
    /\ typed' = <<>>
    /\ UNCHANGED <<hierarchies, decision, share_private_objects>>
    /\ IF batch_no > Len(hierarchies)
       THEN /\ pc' = "returned"
            /\ UNCHANGED <<batch_no, batch_decision,
                           remaining_private_high_diffs,
                           private_high_diffs_to_share, inputs, prompts,
                           resolved_state_low, resolved_state_high, raised>>
       ELSE IF AllSame(batch_diff)
       THEN /\ batch_no' = batch_no + 1
            /\ UNCHANGED <<pc, batch_decision, remaining_private_high_diffs,
                           private_high_diffs_to_share, inputs, prompts,
                           resolved_state_low, resolved_state_high, raised>>
       ELSE IF decision = "None"
       THEN /\ pc' = "side_prompt"
            /\ prompts' = Append(prompts, SidePrompt(batch_no))
            /\ inputs' = 0
            /\ UNCHANGED <<batch_no, batch_decision,
                           remaining_private_high_diffs,
                           private_high_diffs_to_share,
                           resolved_state_low, resolved_state_high, raised>>
       ELSE get_sync_decisions_for_batch_items(decision)

\* Lines 28-35: one line typed at the side prompt.
get_user_input_for_resolve(line) ==
    /\ pc = "side_prompt"
    /\ inputs < MaxInputs
    /\ typed' = <<>>
    /\ UNCHANGED <<hierarchies, decision, share_private_objects>>
    /\ IF lower(line) \in {"low", "high"}
       THEN get_sync_decisions_for_batch_items(lower(line))
       ELSE /\ prompts' = Append(prompts, ChoosePrompt(batch_no))
            /\ inputs' = inputs + 1
            /\ UNCHANGED <<pc, batch_no, batch_decision,
                           remaining_private_high_diffs,
                           private_high_diffs_to_share,
                           resolved_state_low, resolved_state_high, raised>>

\* A prompt loop that gives up at the first line it cannot use.
share_input_leaving_on_invalid(res, remaining, shared) ==
    LET matches ==
            SelectSeq(remaining, LAMBDA diff : startswith(diff.object_id, res))
    IN  IF Len(res) >= 3 /\ Len(matches) = 1
        THEN [remaining |-> ListRemove(remaining, matches[1]),
              shared |-> Append(shared, matches[1]),
              break |-> FALSE]
        ELSE [remaining |-> remaining, shared |-> shared, break |-> TRUE]

\* A prompt loop that notes a selected diff as shared and goes on offering it.
share_input_keeping_selected(res, remaining, shared) ==
    LET matches ==
            SelectSeq(remaining, LAMBDA diff : startswith(diff.object_id, res))
        same == [remaining |-> remaining, shared |-> shared, break |-> FALSE]
    IN  IF res = <<"n", "o">> THEN [same EXCEPT !.break = TRUE]
        ELSE IF Len(res) >= 3
        THEN IF Len(matches) = 0 THEN same
             ELSE IF Len(matches) = 1
             THEN [same EXCEPT !.shared = Append(shared, matches[1])]
             ELSE [same EXCEPT !.break = TRUE]
        ELSE same

\* Lines 205-246: what one line typed at the sharing prompt does to the two
\* lists, and whether it leaves the loop with a break.
share_input(res, remaining, shared) ==
    LET matches ==
            SelectSeq(remaining, LAMBDA diff : startswith(diff.object_id, res))
        same == [remaining |-> remaining, shared |-> shared, break |-> FALSE]
    IN  IF res = <<"n", "o">> THEN [same EXCEPT !.break = TRUE]
        ELSE IF Len(res) >= 3
        THEN IF Len(matches) = 0 THEN same
             ELSE IF Len(matches) = 1
             THEN [remaining |-> ListRemove(remaining, matches[1]),
                   shared |-> Append(shared, matches[1]),
                   break |-> FALSE]
             ELSE [same EXCEPT !.break = TRUE]
        ELSE same

\* Lines 195-248: one line typed at the sharing prompt.  When the loop is left
\* the selection goes back to get_sync_decisions_for_batch_items, which makes
\* the decisions of the batch.
ask_user_input_permission(res) ==
    /\ pc = "share_prompt"
    /\ inputs < MaxInputs
    /\ typed' = res
    /\ UNCHANGED <<hierarchies, decision, share_private_objects, batch_decision>>
    /\ LET after == share_input(res, remaining_private_high_diffs,
                                private_high_diffs_to_share)
       IN  /\ remaining_private_high_diffs' = after.remaining
           /\ private_high_diffs_to_share' = after.shared
           /\ IF after.break \/ Len(after.remaining) = 0
              THEN /\ decide_batch(batch_decision, after.shared)
                   /\ inputs' = 0
                   /\ UNCHANGED prompts
              ELSE /\ prompts' =
                          Append(prompts, SharePrompt(batch_no, after.remaining))
                   /\ inputs' = inputs + 1
                   /\ UNCHANGED <<pc, batch_no, resolved_state_low,
                                  resolved_state_high, raised>>

Resolve ==
    /\ resolve
    /\ UNCHANGED beside_resolve

GetUserInputForResolve ==
    /\ \E line \in SideInputs : get_user_input_for_resolve(line)
    /\ UNCHANGED beside_resolve

AskUserInputPermission ==
    /\ \E res \in ShareInputs : ask_user_input_permission(res)
    /\ UNCHANGED beside_resolve

NextResolve == Resolve \/ GetUserInputForResolve \/ AskUserInputPermission

SpecResolve == InitResolve /\ [][NextResolve]_resolve_vars

\* resolve is running code wherever it does not wait for input(): the head of
\* its loop is taken whenever it can be.
SpecResolveFair == SpecResolve /\ WF_resolve_vars(Resolve)

(* ---------------------- resolve on a single batch ---------------------- *)
\* One call of resolve on a NodeDiff of one batch, the batch drawn from diffs
\* that include a changed object which is no Job, no UserCode and not private.

Log1 == Diff(<<"l", "0", "g", "2">>, "MODIFIED", HighObj("SyftLog", FALSE, "-"))

BatchPool == <<Result1, Job1, Code1, Log1, PrivateJob>>

\* The diffs of pool at the places in S, in pool's order.
RECURSIVE SubList(_, _, _)
SubList(pool, S, i) ==
    IF i > Len(pool) THEN <<>>
    ELSE (IF i \in S THEN <<pool[i]>> ELSE <<>>) \o SubList(pool, S, i + 1)

SingleBatches ==
    {<<SubList(BatchPool, S, 1)>> :
        S \in {T \in SUBSET DOMAIN BatchPool : T # {} /\ Cardinality(T) <= MaxDiffs}}

InitSingleBatch ==
    /\ stash = [n \in Nodes |-> NewProject]
    /\ ret = Call("none", Leader, Leader, NoEvent, 0)
    /\ hierarchies \in SingleBatches
    /\ decision \in Decisions
    /\ share_private_objects \in BOOLEAN
    /\ pc = "for"
    /\ batch_no = 1
    /\ batch_decision = "None"
    /\ remaining_private_high_diffs = <<>>
    /\ private_high_diffs_to_share = <<>>
    /\ inputs = 0
    /\ typed = <<>>
    /\ prompts = <<>>
    /\ resolved_state_low = <<>>
    /\ resolved_state_high = <<>>
    /\ raised = "none"
    /\ NoCalls
    /\ NoQueue
    /\ NoUsers

SpecSingleBatch == InitSingleBatch /\ [][NextResolve]_resolve_vars

(* ------------------------- the claims on resolve ----------------------- *)

\* The decisions a step adds to the low accumulator.
NewDecisions ==
    SubSeq(resolved_state_low', Len(resolved_state_low) + 1,
           Len(resolved_state_low'))

\* The sharing decision in force when a step makes the decisions of a batch.
SharingDecisionFor(diff) ==
    share_private_objects \/ InList(diff, private_high_diffs_to_share')

IsJob(diff) == diff.high_obj.class = "Job"

\* C14 as stated: a diff whose high_obj has private sync attributes gets a
\* READ grant only if a sharing decision exists for it (share_private_objects
\* is set, or it was selected at the prompt).
C14_GrantOnlyWithSharingDecision ==
    [][\A i \in DOMAIN NewDecisions :
          LET d == NewDecisions[i]
          IN  (has_private_high_obj(d.diff) /\ d.new_permissions_lowside # <<>>)
              => SharingDecisionFor(d.diff)]_resolve_vars

\* C14 amended: a diff whose high_obj has private sync attributes and is not a
\* Job gets a READ grant only if a sharing decision exists for it.
C14_GrantOnlyWithSharingDecisionUnlessJob ==
    [][\A i \in DOMAIN NewDecisions :
          LET d == NewDecisions[i]
          IN  (/\ has_private_high_obj(d.diff)
               /\ ~IsJob(d.diff)
               /\ d.new_permissions_lowside # <<>>)
              => SharingDecisionFor(d.diff)]_resolve_vars

\* One batch held a private result selected at the prompt, which was granted,
\* and one not selected, which was not.
C14_Witness ==
    /\ pc = "returned"
    /\ ~share_private_objects
    /\ \E i, j \in DOMAIN resolved_state_low :
          /\ resolved_state_low[i].diff = Result1
          /\ resolved_state_low[i].new_permissions_lowside # <<>>
          /\ resolved_state_low[j].diff = Result2
          /\ resolved_state_low[j].new_permissions_lowside = <<>>
          /\ j = i + 1

\* C15 as stated: every unpublished private high-side diff that is not
\* selected for sharing yields mockify = TRUE and no new permission, whatever
\* the type of its object.
C15_UnsharedPrivateIsMockified ==
    [][\A i \in DOMAIN NewDecisions :
          LET d == NewDecisions[i]
          IN  (has_private_high_obj(d.diff) /\ ~SharingDecisionFor(d.diff))
              => (d.mockify /\ d.new_permissions_lowside = <<>>)]_resolve_vars

\* C15 amended: every unpublished private high-side diff that is not selected
\* for sharing and whose object is not a Job yields mockify = TRUE and no new
\* permission.
C15_UnsharedPrivateIsMockifiedUnlessJob ==
    [][\A i \in DOMAIN NewDecisions :
          LET d == NewDecisions[i]
          IN  (/\ has_private_high_obj(d.diff)
               /\ ~IsJob(d.diff)
               /\ ~SharingDecisionFor(d.diff))
              => (d.mockify /\ d.new_permissions_lowside = <<>>)]_resolve_vars

\* The user declined to share the one private result of the one batch.
C15_Witness ==
    /\ pc = "returned"
    /\ Len(hierarchies) = 1
    /\ private_high_diffs_to_share = <<>>
    /\ \E i \in DOMAIN resolved_state_low :
          /\ resolved_state_low[i].diff = Result1
          /\ resolved_state_low[i].mockify
          /\ resolved_state_low[i].new_permissions_lowside = <<>>

\* user_verify_key of the UserCode of the batch a step makes the decisions of.
GoverningKeys ==
    {batch_diff[i].high_obj.user_verify_key :
        i \in {j \in DOMAIN batch_diff : batch_diff[j].high_obj.class = "UserCode"}}

\* The one grant claims C16 and C17 speak of.
IsReadGrantToGoverningUser(d) ==
    /\ Len(d.new_permissions_lowside) = 1
    /\ d.new_permissions_lowside[1].uid = d.diff.object_id
    /\ d.new_permissions_lowside[1].permission = "READ"
    /\ GoverningKeys = {d.new_permissions_lowside[1].credentials}

\* C16: every unpublished private diff selected for sharing (all of them when
\* share_private_objects is set, else those chosen at the prompt) yields
\* mockify = FALSE and exactly one grant: READ on the diff's object_id to the
\* user_verify_key of the batch's UserCode.
C16_SharedPrivateIsGranted ==
    [][\A i \in DOMAIN NewDecisions :
          LET d == NewDecisions[i]
          IN  (has_private_high_obj(d.diff) /\ SharingDecisionFor(d.diff))
              => (~d.mockify /\ IsReadGrantToGoverningUser(d))]_resolve_vars

\* share_private_objects was set and both private results of a batch governed
\* by bob's UserCode were granted to bob.
C16_Witness ==
    /\ pc = "returned"
    /\ share_private_objects
    /\ \E i, j \in DOMAIN resolved_state_low :
          /\ resolved_state_low[i].diff = Result1
          /\ resolved_state_low[j].diff = Result2
          /\ \A k \in {i, j} :
                /\ ~resolved_state_low[k].mockify
                /\ Len(resolved_state_low[k].new_permissions_lowside) = 1
                /\ resolved_state_low[k].new_permissions_lowside[1].credentials = "bob"

\* C17: every diff whose high_obj is a Job yields mockify = FALSE and a READ
\* grant on the job's object_id to the governing user, whatever
\* share_private_objects is and whatever was chosen at the prompt.
C17_JobIsAlwaysGranted ==
    [][\A i \in DOMAIN NewDecisions :
          LET d == NewDecisions[i]
          IN  IsJob(d.diff)
              => (~d.mockify /\ IsReadGrantToGoverningUser(d))]_resolve_vars

\* A Job with private sync attributes the user declined to share was granted
\* all the same, next to a Job without any.
C17_Witness ==
    /\ pc = "returned"
    /\ ~share_private_objects
    /\ Len(hierarchies) = 1
    /\ private_high_diffs_to_share = <<>>
    /\ \E i, j \in DOMAIN resolved_state_low :
          /\ resolved_state_low[i].diff = PrivateJob
          /\ resolved_state_low[j].diff = Job1
          /\ \A k \in {i, j} :
                /\ ~resolved_state_low[k].mockify
                /\ Len(resolved_state_low[k].new_permissions_lowside) = 1

\* The loop of resolve stands at a batch.
AtBatch == batch_no \in DOMAIN hierarchies

EveryDiffSame == \A i \in DOMAIN batch_diff : batch_diff[i].status = "SAME"

\* C18: in resolve, a batch all of whose diffs have status SAME adds no
\* SyncDecision to either accumulator and brings up no prompt: the loop goes
\* straight on to the next batch, and no prompt is ever shown for such a batch.
C18_AllSameBatchIsSkipped ==
    [][/\ (pc = "for" /\ AtBatch /\ EveryDiffSame)
          => /\ resolved_state_low' = resolved_state_low
             /\ resolved_state_high' = resolved_state_high
             /\ prompts' = prompts
             /\ pc' = "for"
             /\ batch_no' = batch_no + 1
       /\ \A k \in DOMAIN prompts' :
             \E i \in DOMAIN hierarchies[prompts'[k].batch] :
                hierarchies[prompts'[k].batch][i].status # "SAME"]_resolve_vars

\* An unchanged batch came first and left nothing; the batch after it was
\* resolved.
C18_Witness ==
    /\ pc = "returned"
    /\ Len(hierarchies) = 2
    /\ hierarchies[1] = <<Unchanged>>
    /\ Len(resolved_state_low) = Len(hierarchies[2])
    /\ Len(resolved_state_high) = Len(hierarchies[2])
    /\ resolved_state_low # <<>>
    /\ prompts = <<SidePrompt(2)>>

NumUserCodes(diffs) ==
    Cardinality({i \in DOMAIN diffs : diffs[i].high_obj.class = "UserCode"})

HasPrivateDiff(diffs) ==
    \E i \in DOMAIN diffs :
        diffs[i].high_obj # NoObject /\ diffs[i].high_obj.has_private_sync_attrs

TooManyGoverningObjects == "too many user codes"
UngovernedPrivateObjects == "Found unpublished private objects without user code"

\* C19: resolving a batch fails and yields no SyncDecision when its high-side
\* objects include more than one UserCode (TooManyGoverningObjects), and when
\* it has an unpublished private high-side diff but no UserCode
\* (UngovernedPrivateObjects); either failure comes before any sharing prompt.
C19_GoverningErrorsBeforeSharingPrompt ==
    [][(/\ AtBatch
        /\ ~EveryDiffSame
        /\ \/ NumUserCodes(batch_diff) > 1
           \/ NumUserCodes(batch_diff) = 0 /\ HasPrivateDiff(batch_diff))
       => /\ pc' \in {"side_prompt", "raised"}
          /\ (decision # "None" \/ pc' # "side_prompt") => pc' = "raised"
          /\ pc' = "raised"
             => raised' = IF NumUserCodes(batch_diff) > 1
                          THEN TooManyGoverningObjects
                          ELSE UngovernedPrivateObjects
          /\ resolved_state_low' = resolved_state_low
          /\ resolved_state_high' = resolved_state_high
          /\ \A k \in DOMAIN prompts' :
                prompts'[k].prompt = "share" => prompts'[k].batch # batch_no
      ]_resolve_vars

\* Asked for the side of a batch with a private result and no UserCode, the
\* user chose one and the call failed; nothing but the side prompt was shown.
C19_Witness ==
    /\ pc = "raised"
    /\ raised = UngovernedPrivateObjects
    /\ ~share_private_objects
    /\ batch_decision \in {"low", "high"}
    /\ prompts = <<SidePrompt(1)>>
    /\ resolved_state_low = <<>>

\* C20: when a batch raises a governing-object error the whole call of resolve
\* stops with it: the call takes no further step (it returns nothing, skips
\* nothing, resolves and prompts for no later batch) and what it had
\* accumulated is as it was.
C20_GoverningErrorStopsResolve ==
    [][/\ pc # "raised"
       /\ raised = "none"
       /\ raised' # "none"
          => /\ pc' = "raised"
             /\ batch_no' = batch_no
             /\ resolved_state_low' = resolved_state_low
             /\ resolved_state_high' = resolved_state_high
             /\ \A k \in DOMAIN prompts' : prompts'[k].batch <= batch_no
      ]_resolve_vars

\* The first of two batches had two UserCodes: the call stopped there, with a
\* second batch waiting that has changes.
C20_Witness ==
    /\ pc = "raised"
    /\ raised = TooManyGoverningObjects
    /\ batch_no = 1
    /\ Len(hierarchies) = 2
    /\ \E i \in DOMAIN hierarchies[2] : hierarchies[2][i].status # "SAME"
    /\ resolved_state_low = <<>>
    /\ resolved_state_high = <<>>

\* C21: the low and the high ResolvedSyncState hold the same SyncDecisions in
\* the same order, grants and mockify flags included, after resolve returns
\* and at every point before.
C21_BothAccumulatorsAlike == resolved_state_low = resolved_state_high

\* resolve returned with a granted decision and a mockified one in both
\* accumulators.
C21_Witness ==
    /\ pc = "returned"
    /\ \E i, j \in DOMAIN resolved_state_high :
          /\ resolved_state_high[i].new_permissions_lowside # <<>>
          /\ resolved_state_high[j].mockify
          /\ resolved_state_low[j].mockify

\* The candidates the line just typed at the sharing prompt matches.
TypedMatches ==
    {i \in DOMAIN remaining_private_high_diffs :
        /\ Len(typed') <= Len(remaining_private_high_diffs[i].object_id)
        /\ SubSeq(remaining_private_high_diffs[i].object_id, 1, Len(typed'))
               = typed'}

\* C22: at the sharing prompt, a typed prefix (three characters or more) that
\* matches more than one remaining private object shares nothing, leaves the
\* candidates as they were and brings the prompt up again with them, so that
\* the user can go on selecting.
C22_AmbiguousPrefixPromptsAgain ==
    [][(/\ pc = "share_prompt"
        /\ Len(typed') >= 3
        /\ Cardinality(TypedMatches) > 1)
       => /\ pc' = "share_prompt"
          /\ remaining_private_high_diffs' = remaining_private_high_diffs
          /\ private_high_diffs_to_share' = private_high_diffs_to_share
          /\ prompts' = Append(prompts,
                               SharePrompt(batch_no, remaining_private_high_diffs))
      ]_resolve_vars

NonInteractive == decision # "None" /\ share_private_objects

\* C23: called with a decision and with share_private_objects set, resolve
\* reads no input in any batch (no side prompt, no sharing prompt) and ends,
\* by returning or raising, after one pass over the batches.
C23_NonInteractiveNeverWaits ==
    /\ [](NonInteractive
          => /\ pc \in {"for", "returned", "raised"}
             /\ prompts = <<>>
             /\ inputs = 0
             /\ typed = <<>>
             /\ batch_no <= Len(hierarchies) + 1)
    /\ (NonInteractive ~> pc \in {"returned", "raised"})

\* Two batches with private results were resolved without a single prompt.
C23_Witness ==
    /\ NonInteractive
    /\ pc = "returned"
    /\ Len(hierarchies) = 2
    /\ prompts = <<>>
    /\ \E i, j \in DOMAIN resolved_state_low :
          /\ resolved_state_low[i].diff = Result1
          /\ resolved_state_low[j].diff = Result2
          /\ resolved_state_low[i].new_permissions_lowside # <<>>
          /\ resolved_state_low[j].new_permissions_lowside # <<>>

\* The diffs of the batches of hs that are not all SAME, batch after batch.
RECURSIVE DiffsToDecide(_, _)
DiffsToDecide(hs, n) ==
    IF n > Len(hs) THEN <<>>
    ELSE (IF \A i \in DOMAIN hs[n] : hs[n][i].status = "SAME"
          THEN <<>> ELSE hs[n]) \o DiffsToDecide(hs, n + 1)

\* The side prompts of the batches of hs that are not all SAME.
RECURSIVE SidePromptsDue(_, _)
SidePromptsDue(hs, n) ==
    IF n > Len(hs) THEN <<>>
    ELSE (IF \A i \in DOMAIN hs[n] : hs[n][i].status = "SAME"
          THEN <<>> ELSE <<SidePrompt(n)>>) \o SidePromptsDue(hs, n + 1)

SidePromptsShown == SelectSeq(prompts', LAMBDA p : p.prompt = "side")

\* C32: a step of resolve that adds decisions adds one per diff of the batch
\* it stands at, in the order of batch.diffs, each with the side in force for
\* that batch; when resolve returns, the accumulated decisions are those of
\* the batches that are not all SAME, in batch order, and with no decision
\* given upfront the side prompt was shown once per such batch, in that order.
C32_OneDecisionPerDiffInOrder ==
    [][ /\ NewDecisions # <<>>
           => /\ Len(NewDecisions) = Len(batch_diff)
              /\ \A i \in DOMAIN NewDecisions :
                    /\ NewDecisions[i].diff = batch_diff[i]
                    /\ NewDecisions[i].decision = batch_decision'
              /\ decision # "None" => batch_decision' = decision
        /\ pc' = "returned"
           => /\ [i \in DOMAIN resolved_state_low' |->
                     resolved_state_low'[i].diff] = DiffsToDecide(hierarchies, 1)
              /\ decision = "None"
                 => SidePromptsShown = SidePromptsDue(hierarchies, 1)
      ]_resolve_vars

\* Two batches, the first with an unchanged diff next to a changed one, were
\* resolved at the prompt, the first from the low side and the second from
\* the high side.
C32_Witness ==
    /\ pc = "returned"
    /\ decision = "None"
    /\ Len(hierarchies) = 2
    /\ \E i, j \in DOMAIN hierarchies[1] :
          hierarchies[1][i].status = "SAME" /\ hierarchies[1][j].status # "SAME"
    /\ Len(resolved_state_low) = Len(hierarchies[1]) + Len(hierarchies[2])
    /\ resolved_state_low[1].decision = "low"
    /\ resolved_state_low[Len(resolved_state_low)].decision = "high"
    /\ SelectSeq(prompts, LAMBDA p : p.prompt = "side")
           = <<SidePrompt(1), SidePrompt(2)>>

\* C33: every diff of a batch that is neither a Job nor an unpublished private
\* high-side diff yields a SyncDecision with no new permission and
\* mockify = FALSE, whatever share_private_objects is.
C33_OtherDiffsSharedWithoutGrant ==
    [][\A i \in DOMAIN NewDecisions :
          LET d == NewDecisions[i]
          IN  (~IsJob(d.diff) /\ ~has_private_high_obj(d.diff))
              => (d.new_permissions_lowside = <<>> /\ ~d.mockify)]_resolve_vars

\* With share_private_objects set, the private result of a batch was granted
\* and the UserCode that governs it, in the same batch, was not.
C33_Witness ==
    /\ pc = "returned"
    /\ share_private_objects
    /\ Len(hierarchies) = 1
    /\ \E i, j \in DOMAIN resolved_state_low :
          /\ resolved_state_low[i].diff = Result1
          /\ resolved_state_low[i].new_permissions_lowside # <<>>
          /\ resolved_state_low[j].diff = Code1
          /\ resolved_state_low[j].new_permissions_lowside = <<>>
          /\ ~resolved_state_low[j].mockify

\* This step reads a line at the sharing prompt that selects nothing: it is
\* not "no" and is shorter than three characters or the start of no remaining
\* id.
InvalidSelection ==
    /\ typed' # <<>>
    /\ typed' # <<"n", "o">>
    /\ Len(typed') < 3 \/ TypedMatches = {}

\* C34: an invalid selection at the sharing prompt raises nothing, leaves the
\* remaining and the shared list as they were, and is followed by another
\* prompt over the same candidates.
C34_InvalidSelectionPromptsAgain ==
    [][InvalidSelection
       => /\ raised' = raised
          /\ pc' = "share_prompt"
          /\ remaining_private_high_diffs' = remaining_private_high_diffs
          /\ private_high_diffs_to_share' = private_high_diffs_to_share
          /\ resolved_state_low' = resolved_state_low
          /\ prompts' = Append(prompts,
                 SharePrompt(batch_no, remaining_private_high_diffs))
      ]_resolve_vars

\* A line of two characters and then the start of another object's id were
\* typed, and the prompt stands as it did.
C34_Witness ==
    /\ pc = "share_prompt"
    /\ typed = <<"a", "b", "d">>
    /\ inputs = 2
    /\ remaining_private_high_diffs = <<Result1>>
    /\ private_high_diffs_to_share = <<>>
    /\ raised = "none"
    /\ Len(prompts) >= 3
    /\ prompts[Len(prompts)] = prompts[Len(prompts) - 1]
    /\ prompts[Len(prompts)] = prompts[Len(prompts) - 2]

\* C35: every SyncDecision resolve has produced carries the side "low" or the
\* side "high", whether the side came from the prompt or from the decision
\* argument.
C35_EveryDecisionIsLowOrHigh ==
    \A i \in DOMAIN resolved_state_low :
        resolved_state_low[i].decision \in {"low", "high"}

Elements(list) == {list[i] : i \in DOMAIN list}

\* remaining and shared have no diff twice, none in common, and between them
\* hold the diffs of the batch whose high object has private sync attributes.
SplitsCandidates(remaining, shared, diffs) ==
    /\ Cardinality(Elements(remaining)) = Len(remaining)
    /\ Cardinality(Elements(shared)) = Len(shared)
    /\ Elements(remaining) \cap Elements(shared) = {}
    /\ Elements(remaining) \cup Elements(shared)
         = {d \in Elements(diffs) :
               d.high_obj.class # "None" /\ d.high_obj.has_private_sync_attrs}

\* C36: at every line read at the sharing prompt, before and after, remaining
\* and shared are disjoint, free of duplicates and together the batch's
\* unpublished private diffs; a line that is the start of exactly one
\* remaining id moves that diff, and no other, from remaining to shared; the
\* loop is left when "no" is typed or nothing remains, and what remains then
\* is not in the shared list.
C36_SharingLoopSplitsCandidates ==
    [][typed' # <<>>
       => /\ SplitsCandidates(remaining_private_high_diffs,
                              private_high_diffs_to_share, batch_diff)
          /\ SplitsCandidates(remaining_private_high_diffs',
                              private_high_diffs_to_share', batch_diff)
          /\ (Len(typed') >= 3 /\ Cardinality(TypedMatches) = 1)
             => \E i \in TypedMatches :
                   /\ private_high_diffs_to_share' =
                          Append(private_high_diffs_to_share,
                                 remaining_private_high_diffs[i])
                   /\ remaining_private_high_diffs' =
                          SubSeq(remaining_private_high_diffs, 1, i - 1)
                          \o SubSeq(remaining_private_high_diffs, i + 1,
                                    Len(remaining_private_high_diffs))
          /\ (typed' = <<"n", "o">> \/ remaining_private_high_diffs' = <<>>)
             => pc' # "share_prompt"
          /\ pc' = "share_prompt" => remaining_private_high_diffs' # <<>>
          /\ pc' # "share_prompt"
             => \A i \in DOMAIN remaining_private_high_diffs' :
                   /\ ~InList(remaining_private_high_diffs'[i],
                              private_high_diffs_to_share')
                   /\ \E k \in DOMAIN NewDecisions :
                         NewDecisions[k].diff = remaining_private_high_diffs'[i]
      ]_resolve_vars

\* One of two private results was selected and then "no" was typed: the loop
\* was left with one shared and one remaining.
C36_Witness ==
    /\ typed = <<"n", "o">>
    /\ pc = "for"
    /\ private_high_diffs_to_share = <<Result1>>
    /\ remaining_private_high_diffs = <<Result2>>
    /\ \E i \in DOMAIN resolved_state_low :
          resolved_state_low[i].diff = Result2 /\ resolved_state_low[i].mockify

\* What the one batch of a single-batch call holds.
TheBatch == hierarchies[1]

HasJob == \E i \in DOMAIN TheBatch : TheBatch[i].high_obj.class = "Job"

HasUserCode == \E i \in DOMAIN TheBatch : TheBatch[i].high_obj.class = "UserCode"

HasPrivate ==
    \E i \in DOMAIN TheBatch : TheBatch[i].high_obj.has_private_sync_attrs

Ended == pc \in {"returned", "raised"}

\* A batch without Job, private diff or UserCode never fails, and its
\* decisions grant nothing.
PlainBatchResolves ==
    (~HasJob /\ ~HasPrivate /\ ~HasUserCode)
    => /\ pc # "raised"
       /\ pc = "returned"
          => /\ Len(resolved_state_low) = Len(TheBatch)
             /\ \A i \in DOMAIN resolved_state_low :
                   /\ resolved_state_low[i].new_permissions_lowside = <<>>
                   /\ ~resolved_state_low[i].mockify

\* C37 as stated: resolving a batch that has a Job and no UserCode ends with
\* the error "Job without user code" and no SyncDecision, whether or not the
\* batch has an unpublished private diff; a batch with no Job, no private
\* diff and no UserCode resolves with no grants.
C37_JobWithoutUserCodeFails ==
    /\ (Ended /\ HasJob /\ ~HasUserCode)
       => /\ pc = "raised"
          /\ raised = "Job without user code"
          /\ resolved_state_low = <<>>
          /\ resolved_state_high = <<>>
    /\ PlainBatchResolves

\* C37 amended: such a batch ends with an error and no SyncDecision; the
\* error is "Job without user code" when the batch has no unpublished private
\* diff, and "Found unpublished private objects without user code" (raised
\* earlier, line 110) when it has one.
C37_JobWithoutUserCodeFailsWithEitherError ==
    /\ (Ended /\ HasJob /\ ~HasUserCode)
       => /\ pc = "raised"
          /\ raised = IF HasPrivate
                      THEN "Found unpublished private objects without user code"
                      ELSE "Job without user code"
          /\ resolved_state_low = <<>>
          /\ resolved_state_high = <<>>
    /\ PlainBatchResolves

\* A Job next to a changed log, with no UserCode and nothing private, ended
\* in "Job without user code" with nothing accumulated.
C37_Witness ==
    /\ TheBatch = <<Job1, Log1>>
    /\ pc = "raised"
    /\ raised = "Job without user code"
    /\ resolved_state_low = <<>>

(* ======================================================================= *)
(* Two broadcast_event calls at once on the leader                         *)
(* (project_service.py, lines 227-280).                                    *)
(*                                                                         *)
(* The handler takes no lock: each call goes through its lines on its own  *)
(* project object, and the calls may take turns between any two of the     *)
(* steps below.  Every peer is reachable and hands a remote error back.    *)
(* ======================================================================= *)

\* The credentials the calls are made with: a user with permission.
Caller == "U"

AllReachable == [m \in {"F1", "F2"} |-> "ok"]

InitConcurrent ==
    /\ stash = [n \in Nodes |-> NewProject]
    /\ ret = Call("none", Leader, Leader, NoEvent, 0)
    /\ NoResolve
    /\ NoCalls
    /\ NoQueue
    /\ NoUsers

\* Lines 235-237: the call fetches the project from the stash.
get_by_uid(c, project_event) ==
    /\ calls[c].at = "idle"
    /\ calls' = [calls EXCEPT ![c] = [at |-> "fetched",
                                      event |-> project_event,
                                      project |-> stash[Leader]]]
    /\ UNCHANGED stash

\* Lines 239-248: the checks, against the project the call fetched, and the
\* append to that project.
validate_and_append(c) ==
    /\ calls[c].at = "fetched"
    /\ IF broadcast_event_checks(Leader, Caller, calls[c].event,
                                 calls[c].project) # "Ok"
       THEN calls' = [calls EXCEPT ![c].at = "rejected"]
       ELSE /\ Len(calls[c].project.events) < MaxLen
            /\ calls' = [calls EXCEPT
                            ![c].at = "appended",
                            ![c].project = AppendEvent(calls[c].project,
                                                       calls[c].event)]
    /\ UNCHANGED stash

\* Lines 251-273: the member loop.
deliver_to_members(c) ==
    /\ calls[c].at = "appended"
    /\ stash' = deliver(1, stash, <<>>, Leader, calls[c].event,
                        AllReachable, "return").stash
    /\ calls' = [calls EXCEPT ![c].at = "delivered"]

\* Lines 275-280: stash.update with the call's project, and the SyftSuccess.
update(c) ==
    /\ calls[c].at = "delivered"
    /\ stash' = [stash EXCEPT ![Leader] = calls[c].project]
    /\ calls' = [calls EXCEPT ![c].at = "ok"]

beside_calls == <<ret, resolve_vars, queue_vars, user_vars>>

GetByUid ==
    /\ \E c \in CallIds, e \in Events : get_by_uid(c, e)
    /\ UNCHANGED beside_calls

ValidateAndAppend ==
    /\ \E c \in CallIds : validate_and_append(c)
    /\ UNCHANGED beside_calls

DeliverToMembers ==
    /\ \E c \in CallIds : deliver_to_members(c)
    /\ UNCHANGED beside_calls

Update ==
    /\ \E c \in CallIds : update(c)
    /\ UNCHANGED beside_calls

NextConcurrent == GetByUid \/ ValidateAndAppend \/ DeliverToMembers \/ Update

SpecConcurrent == InitConcurrent /\ [][NextConcurrent]_<<stash, calls>>

\* C28: however two broadcast_event calls on the leader take turns, the stored
\* log never holds two events with the same seq_no and never lacks the event
\* of a call that returned success.
C28_NoLostOrDoubleEvent ==
    /\ \A i, j \in DOMAIN LeaderLog :
          LeaderLog[i].seq_no = LeaderLog[j].seq_no => i = j
    /\ \A c \in CallIds :
          calls[c].at = "ok"
          => \E i \in DOMAIN LeaderLog : LeaderLog[i] = calls[c].event

(* --------------------------- Message queue ---------------------------- *)
(* zmq_queue.py: a ZMQPublisher bound to an address, one ZMQSubscriber
   connected to it, and a ZMQClient. All three take their sockets from the
   one zmq.Context.instance() of the process. *)

MaxSent == 2
MaxReceives == 2
MaxOps == 3

\* Queue names are text; "AB" starts with "A".
QueueNames == { <<"A">>, <<"A", "B">>, <<"B">> }

\* Payloads are bytes.
Messages == { <<1>>, <<2>> }

\* What the caller passes as message_handler: a class with a handle_message
\* method (AbstractMessageHandler), or a bound method as in the test
\* (MyMessageHandler.message_handler, zmq_queue_test.py line 88).
Handlers == {"AbstractMessageHandler", "bound_method"}

\* str.encode(): the code point of each character (ASCII text).
ord(ch) == CASE ch = "A" -> 65 [] ch = "B" -> 66 [] OTHER -> 63

encode(text) == [i \in DOMAIN text |-> ord(text[i])]

Last(seq) == seq[Len(seq)]

\* A failed socket call after the context was destroyed: the errno depends on
\* whether the call met the terminated context or the closed socket.
Errnos == {"ETERM", "ENOTSOCK"}

\* A SUB socket passes a message whose first frame starts with a subscribed
\* prefix (setsockopt_string encodes the queue name, line 71).
subscribed_to(frame) ==
    /\ subscriber.state = "connected"
    /\ startswith(frame, encode(subscriber.queue_name))

InitQueue ==
    /\ stash = [n \in Nodes |-> NewProject]
    /\ ret = Call("none", Leader, Leader, NoEvent, 0)
    /\ NoResolve
    /\ NoCalls
    /\ NoQueue
    /\ NoUsers

\* ZMQSubscriber.__init__ and post_init (lines 53-71): socket, connect,
\* subscribe. The connection is made in the background.
post_init(message_handler, queue_name) ==
    /\ subscriber.state = "none"
    /\ context = "live"
    /\ subscriber' = [state |-> "connecting", queue_name |-> queue_name,
                      message_handler |-> message_handler]
    /\ UNCHANGED <<sent, inbox, arrived, handled, receive_calls, context,
                   thread, logger_thread, greenlets, sockets, client_calls>>

\* The connection and the subscription reach the publisher (the test sleeps
\* for it, zmq_queue_test.py lines 99-100).
connected ==
    /\ subscriber.state = "connecting"
    /\ context = "live"
    /\ subscriber' = [subscriber EXCEPT !.state = "connected"]
    /\ UNCHANGED <<sent, inbox, arrived, handled, receive_calls, context,
                   thread, logger_thread, greenlets, sockets, client_calls>>

\* ZMQPublisher.send (lines 35-45).
send(message, queue_name) ==
    /\ Len(sent) < MaxSent
    /\ IF context = "live"
       THEN LET queue_name_bytes == encode(queue_name)
                message_list == <<queue_name_bytes, message>>
            IN  /\ sent' = Append(sent, [message |-> message,
                                         queue_name |-> queue_name,
                                         outcome |-> "queued"])
                /\ IF subscribed_to(message_list[1])
                   THEN /\ inbox' = Append(inbox, message_list)
                        /\ arrived' = Append(arrived, message_list)
                   ELSE UNCHANGED <<inbox, arrived>>
       ELSE /\ \E errno \in Errnos :
                 sent' = Append(sent, [message |-> message,
                                       queue_name |-> queue_name,
                                       outcome |-> IF errno = "ETERM"
                                                   THEN "interrupted"
                                                   ELSE "ZMQError"])
            /\ UNCHANGED <<inbox, arrived>>
    /\ UNCHANGED <<subscriber, handled, receive_calls, context, thread,
                   logger_thread, greenlets, sockets, client_calls>>

\* One call of receive(): the errno of the ZMQError recv_multipart raised
\* ("none": a message came) and how the call ended.
Received(errno, outcome) == [errno |-> errno, outcome |-> outcome]

receive_handing_first_frame ==
    /\ Len(receive_calls) < MaxReceives
    /\ subscriber.state # "none"
    /\ context = "live"
    /\ inbox # <<>>
    /\ inbox' = Tail(inbox)
    /\ handled' = Append(handled, Head(inbox)[1])
    /\ receive_calls' = Append(receive_calls, Received("none", "returned"))
    /\ UNCHANGED <<subscriber, sent, arrived, context, thread, logger_thread,
                   greenlets, sockets, client_calls>>

\* ZMQSubscriber.receive (lines 73-84). recv_multipart waits for a message
\* while the context is alive. After an ETERM the except clause only prints,
\* and line 84 runs with `message` never assigned.
receive ==
    /\ Len(receive_calls) < MaxReceives
    /\ subscriber.state # "none"
    /\ IF context = "live"
       THEN /\ inbox # <<>>
            /\ LET message_list == Head(inbox)
                   message == message_list[2]
               IN  /\ inbox' = Tail(inbox)
                   /\ IF subscriber.message_handler = "AbstractMessageHandler"
                      THEN /\ handled' = Append(handled, message)
                           /\ receive_calls' =
                                  Append(receive_calls,
                                         Received("none", "returned"))
                      ELSE /\ handled' = handled
                           /\ receive_calls' =
                                  Append(receive_calls,
                                         Received("none", "AttributeError"))
       ELSE /\ \E errno \in Errnos :
                 receive_calls' = Append(receive_calls, Received(errno,
                     IF errno # "ETERM" THEN "ZMQError"
                     ELSE IF subscriber.message_handler = "bound_method"
                          THEN "AttributeError"
                          ELSE "UnboundLocalError"))
            /\ UNCHANGED <<inbox, handled>>
    /\ UNCHANGED <<subscriber, sent, arrived, context, thread, logger_thread,
                   greenlets, sockets, client_calls>>

\* ZMQClient.start (lines 201-214) with _setup_connections (lines 155-162).
\* bind is "ok" or "in_use"; the address is in use for certain once this
\* client's own forwarder holds a socket bound to it.
start(bind) ==
    /\ Len(client_calls) < MaxOps
    /\ thread # None => bind = "in_use"
    /\ IF context # "live"
       THEN /\ client_calls' = Append(client_calls,
                                [op |-> "start", outcome |-> "ZMQError"])
            /\ UNCHANGED <<sockets, greenlets, thread, logger_thread>>
       ELSE IF bind = "in_use"
       THEN /\ sockets' = [sockets EXCEPT !["xsub"] = "open",
                                          !["xpub"] = "open"]
            /\ client_calls' = Append(client_calls,
                                [op |-> "start", outcome |-> "ZMQError"])
            /\ UNCHANGED <<greenlets, thread, logger_thread>>
       ELSE /\ sockets' = [k \in ClientSockets |-> "open"]
            /\ greenlets' = greenlets \o <<"alive", "alive">>
            /\ logger_thread' = Len(greenlets) + 1
            /\ thread' = Len(greenlets) + 2
            /\ client_calls' = Append(client_calls,
                                [op |-> "start", outcome |-> "ok"])
    /\ UNCHANGED <<subscriber, sent, inbox, arrived, handled, receive_calls,
                   context>>

close_killing_forwarder_only ==
    /\ Len(client_calls) < MaxOps
    /\ thread # None
    /\ greenlets' = [greenlets EXCEPT ![thread] = "dead"]
    /\ context' = "terminated"
    /\ sockets' = [k \in ClientSockets |->
                      IF sockets[k] = "unset" THEN "unset" ELSE "closed"]
    /\ client_calls' = Append(client_calls,
                              [op |-> "close", outcome |-> "ok"])
    /\ UNCHANGED <<subscriber, sent, inbox, arrived, handled, receive_calls,
                   thread, logger_thread>>

\* ZMQClient.close (lines 223-230). kill waits until the greenlet is dead;
\* context.destroy() closes every socket of the context and terminates it.
close ==
    /\ Len(client_calls) < MaxOps
    /\ IF thread = None
       THEN /\ client_calls' = Append(client_calls,
                                [op |-> "close", outcome |-> "AttributeError"])
            /\ UNCHANGED <<greenlets, context, sockets>>
       ELSE /\ greenlets' = [greenlets EXCEPT ![thread] = "dead",
                                              ![logger_thread] = "dead"]
            /\ context' = "terminated"
            /\ sockets' = [k \in ClientSockets |->
                              IF sockets[k] = "unset" THEN "unset"
                              ELSE "closed"]
            /\ client_calls' = Append(client_calls,
                                [op |-> "close", outcome |-> "ok"])
    /\ UNCHANGED <<subscriber, sent, inbox, arrived, handled, receive_calls,
                   thread, logger_thread>>

\* What the queue leaves alone.
beside_queue == <<vars, resolve_vars, calls, user_vars>>

PostInit ==
    /\ \E h \in Handlers, q \in QueueNames : post_init(h, q)
    /\ UNCHANGED beside_queue

Connected ==
    /\ connected
    /\ UNCHANGED beside_queue

Send ==
    /\ \E m \in Messages, q \in QueueNames : send(m, q)
    /\ UNCHANGED beside_queue

Receive ==
    /\ receive
    /\ UNCHANGED beside_queue

Start ==
    /\ \E bind \in {"ok", "in_use"} : start(bind)
    /\ UNCHANGED beside_queue

Close ==
    /\ close
    /\ UNCHANGED beside_queue

NextQueue == PostInit \/ Connected \/ Send \/ Receive \/ Start \/ Close

SpecQueue == InitQueue /\ [][NextQueue]_queue_vars

(* ------------------------ Message queue claims ------------------------ *)

\* The subscriber is connected and subscribed, on a live context.
Listening == subscriber.state = "connected" /\ context = "live"

\* This step is a send call with the subscriber's own queue name.
SendToSubscriber ==
    /\ Len(sent') = Len(sent) + 1
    /\ Last(sent').queue_name = subscriber.queue_name

\* This step is a receive() call that found a message waiting.
ReceiveOfMessage ==
    /\ Len(receive_calls') = Len(receive_calls) + 1
    /\ inbox # <<>>

HandledInSendOrder ==
    /\ Len(handled') <= Len(arrived')
    /\ \A i \in DOMAIN handled' : handled'[i] = arrived'[i][2]

StartOk == [op |-> "start", outcome |-> "ok"]

CloseOk == [op |-> "close", outcome |-> "ok"]

\* C26: until a start() went through, thread and logger_thread are None;
\* right after start() both greenlets are alive and the four sockets are
\* open; right after close() both are dead, and no greenlet the client
\* spawned is left running.
C26_ClientLifecycle ==
    /\ (\A i \in DOMAIN client_calls : client_calls[i] # StartOk)
       => thread = None /\ logger_thread = None
    /\ (client_calls # <<>> /\ Last(client_calls) = StartOk)
       => /\ thread # None /\ logger_thread # None
          /\ thread # logger_thread
          /\ greenlets[thread] = "alive"
          /\ greenlets[logger_thread] = "alive"
          /\ \A k \in ClientSockets : sockets[k] = "open"
    /\ (client_calls # <<>> /\ Last(client_calls) = CloseOk)
       => /\ greenlets[thread] = "dead"
          /\ greenlets[logger_thread] = "dead"
    /\ (client_calls # <<>> /\ Last(client_calls).op = "close")
       => \A g \in DOMAIN greenlets : greenlets[g] = "dead"

\* construct -> start -> close, each going through.
C26_Witness ==
    /\ client_calls = <<StartOk, CloseOk>>
    /\ thread # None /\ logger_thread # None
    /\ greenlets = <<"dead", "dead">>

\* The receive() calls so far that got a message.
MessagesReceived ==
    Cardinality({i \in DOMAIN receive_calls : receive_calls[i].errno = "none"})

\* C38: a receive() whose recv_multipart fails with ETERM returns, raising
\* nothing and not calling the handler; the handler is called only with the
\* payload of a message a receive() call got.
C38_EtermReturnsWithoutHandling ==
    /\ \A i \in DOMAIN receive_calls :
          receive_calls[i].errno = "ETERM" => receive_calls[i].outcome = "returned"
    /\ Len(handled) <= MessagesReceived
    /\ \A i \in DOMAIN handled : handled[i] = arrived[i][2]

(* ------------------------------- Users --------------------------------- *)
(* user_service.py. A caller is a stored user: context.credentials is the
   caller's verify key (written as the caller's uid) and context.role the
   role stored for it. *)

\* A field of UserUpdate that was not given.
Empty == "Empty"

\* ServiceRole.value, as far as comparisons go: the place of the role in Roles.
value(role) == CHOOSE i \in DOMAIN Roles : Roles[i] = role

RoleNames == {Roles[i] : i \in DOMAIN Roles}

\* context.capabilities(): the capabilities update asks about.
capabilities(role) ==
    CASE role = "ADMIN" -> {"CAN_EDIT_ROLES", "CAN_MANAGE_USERS"}
      [] role = "DATA_OWNER" -> {"CAN_EDIT_ROLES"}
      [] OTHER -> {}

\* Lines 204-270 on the stored user: the error update raises, or "none".
update_error(caller, uid, role, name) ==
    LET context_role == users[caller].role
        updates_role == role # Empty
        can_edit_roles == "CAN_EDIT_ROLES" \in capabilities(context_role)
        edits_non_role_attrs == name # Empty
    IN  IF updates_role /\ ~can_edit_roles THEN "UserPermissionError"
        ELSE IF /\ updates_role
                /\ context_role # "ADMIN"
                /\ ~(/\ context_role = "DATA_OWNER"
                     /\ value(context_role) > value(role))
        THEN "UserPermissionError"
        ELSE IF /\ edits_non_role_attrs
                /\ uid # caller
                /\ "CAN_MANAGE_USERS" \notin capabilities(context_role)
        THEN "UserPermissionError"
        ELSE "none"

\* UserService.update (lines 204-283): user_update gives a role, a name, or
\* both.
UserService_update(caller, uid, role, name) ==
    LET err == update_error(caller, uid, role, name)
    IN  /\ role # Empty \/ name # Empty
        /\ user_ret' = [caller_role |-> users[caller].role, err |-> err]
        /\ IF err # "none" THEN UNCHANGED users
           ELSE users' = [users EXCEPT
                    ![uid].role = IF role # Empty THEN role ELSE @,
                    ![uid].name = IF name # Empty THEN name ELSE @]
        /\ UNCHANGED user_calls

\* What the user service leaves alone.
beside_users == <<vars, resolve_vars, calls, queue_vars>>

InitUsers ==
    /\ stash = [n \in Nodes |-> NewProject]
    /\ ret = Call("none", Leader, Leader, NoEvent, 0)
    /\ NoResolve
    /\ NoCalls
    /\ NoQueue
    /\ NoUsers

UserUpdate ==
    /\ \E caller \in DOMAIN users, uid \in DOMAIN users,
          role \in RoleNames \cup {Empty}, name \in {Empty, "n"} :
          UserService_update(caller, uid, role, name)
    /\ UNCHANGED beside_users

SpecUserUpdate == InitUsers /\ [][UserUpdate]_user_vars

Below(role, bound) == value(role) < value(bound)

\* C39: an update call made by a DATA_OWNER changes the role only of a user
\* whose role was below DATA_OWNER, and only to a role below DATA_OWNER.
C39_DataOwnerEditsLowerRolesOnly ==
    [][user_ret'.caller_role = "DATA_OWNER"
       => \A uid \in DOMAIN users :
             users'[uid].role # users[uid].role
             => /\ Below(users[uid].role, "DATA_OWNER")
                /\ Below(users'[uid].role, "DATA_OWNER")]_user_vars

(* ----------------------- create and register --------------------------- *)
(* Neither handler takes a lock: a call looks the email up, and stores the
   user in a later step; another call may run between the two. *)

\* Most users the stash grows to.
MaxUsers == 5

\* The emails new users come with: one that is taken from the start, one
\* that is free.
NewEmails == {"root", "new"}

\* _check_if_email_exists (lines 94-99).
check_if_email_exists(email) == \E uid \in DOMAIN users : users[uid].email = email

\* The roles of DATA_OWNER_ROLE_LEVEL.
DATA_OWNER_ROLE_LEVEL == {r \in RoleNames : value(r) >= value("DATA_OWNER")}

NotRunning(c) == user_calls[c].at \in {"idle", "ok", "failed"}

Failed(op, email, err) ==
    [at |-> "failed", op |-> op, email |-> email, err |-> err]

\* create, lines 106-113: the email is looked up.
create(c, email) ==
    /\ NotRunning(c)
    /\ user_calls' = [user_calls EXCEPT ![c] =
           IF check_if_email_exists(email)
           THEN Failed("create", email, "UserCreateError")
           ELSE [at |-> "checked", op |-> "create", email |-> email]]
    /\ UNCHANGED <<users, user_ret>>

\* register, lines 334-355: the permission to register, then the lookup.
\* created_by is None or a stored user.
register(c, email, signup_enabled, created_by) ==
    LET request_user_role ==
            IF created_by = None THEN "GUEST" ELSE users[created_by].role
        can_user_register ==
            signup_enabled \/ request_user_role \in DATA_OWNER_ROLE_LEVEL
    IN  /\ NotRunning(c)
        /\ user_calls' = [user_calls EXCEPT ![c] =
               IF ~can_user_register
               THEN Failed("register", email, "UserPermissionError")
               ELSE IF check_if_email_exists(email)
               THEN Failed("register", email, "UserCreateError")
               ELSE [at |-> "checked", op |-> "register", email |-> email]]
        /\ UNCHANGED <<users, user_ret>>

\* _add_user (lines 85-92), called at line 114 and at line 357. When the
\* email has been stored in the meantime, the stash either stores the user
\* all the same or refuses, and unwrap() raises the stash's error.
add_user(c, refuses) ==
    /\ user_calls[c].at = "checked"
    /\ Len(users) < MaxUsers
    /\ IF refuses /\ check_if_email_exists(user_calls[c].email)
       THEN /\ user_calls' = [user_calls EXCEPT ![c] =
                   Failed(user_calls[c].op, user_calls[c].email, "StashError")]
            /\ UNCHANGED users
       ELSE /\ users' = Append(users, User(user_calls[c].email, "GUEST"))
            /\ user_calls' = [user_calls EXCEPT ![c].at = "ok"]
    /\ UNCHANGED user_ret

Create ==
    /\ \E c \in CallIds, email \in NewEmails : create(c, email)
    /\ UNCHANGED beside_users

Register ==
    /\ \E c \in CallIds, email \in NewEmails, signup_enabled \in BOOLEAN,
          created_by \in {None} \cup DOMAIN users :
          register(c, email, signup_enabled, created_by)
    /\ UNCHANGED beside_users

AddUser ==
    /\ \E c \in CallIds, refuses \in BOOLEAN : add_user(c, refuses)
    /\ UNCHANGED beside_users

NextUserCreate == Create \/ Register \/ AddUser

SpecUserCreate == InitUsers /\ [][NextUserCreate]_user_vars

\* C40: whatever create and register calls ran, and however they took turns,
\* no two stored users have the same email, and a call that did not store
\* its user ended with UserCreateError (or, for a register that was not
\* allowed, UserPermissionError).
C40_EmailsStayUnique ==
    /\ \A i, j \in DOMAIN users : users[i].email = users[j].email => i = j
    /\ \A c \in CallIds :
          user_calls[c].at = "failed"
          => user_calls[c].err \in {"UserCreateError", "UserPermissionError"}
====
